---------------------------- MODULE Spec2Model ----------------------------
(***************************************************************************)
(* A model of plano-rs: the table-spec parsers, the partition-aware table  *)
(* registrar, the start-up table loading of the query servers and the      *)
(* query-result cache.  Strings are sequences of one-character strings.    *)
(***************************************************************************)
EXTENDS Integers, Sequences, FiniteSets, TLC

VARIABLES
    \* ---- table-spec parsing (tables.rs, table_spec.rs)
    raw,        \* the command-line string handed to TableSpec::parse
    form,       \* how the operator composed raw: [wf, name, root, cols]
    parsed,     \* the Result of the parse
    variant,    \* which TableSpec::parse ran: "none", "tables", "table_spec"
    \* ---- table registration (tables.rs register_tables, rds.rs handle_rds)
    table_specs, \* the TableSpecs handed to register_tables
    files,       \* per root: what schema inference over its files gives
    catalog,     \* the engine's table catalog: table name -> table
    reg_i,       \* register_tables: index of the next spec of the loop
    reg_result,  \* register_tables: "running", "ok" (Ok(())) or "err" (Err)
    calls,       \* the register_table calls made so far, with their outcome
    rds_status,  \* the reply of the last GET /rds: "none", "ok", "rejected"
    \* ---- start-up table loading of queryd and query-cli (their main)
    prog,        \* which binary runs: "queryd", "query-cli" or "none"
    tables,      \* args.table: the (name, glob pattern) pairs, in order
    globbed,     \* per pattern: the parquet files it matches, and whether
                 \* read_parquet can read them
    table_paths, \* queryd: the HashMap name -> files
    views,       \* the engine's catalog: name -> the files of its view
    st_i,        \* index of the next pair of the first loop
    st_pc,       \* "glob", "load", "serving", "exit_1", "exit_err"
    errlog,      \* the names logged with "No files matched", in order
    \* ---- the query cache and POST /query (routes/query_route.rs)
    cap,         \* the capacity the LruCache was built with
    cache,       \* the LruCache: its (key, value) entries, most recent first
    recent,      \* history: every key ever put or hit, last touched first
    rpc,         \* per request: "idle", "check", "get", "hit", "exec", "put", "putting"
    rsql,        \* per request: the query text of its form
    rres,        \* per request: the batches the engine returned to it
    resp,        \* per request slot: the last response sent
    handler,     \* which handle_query serves: "query_route" or "main"
    lock,        \* the holder of the cache Mutex, or "free"
    racc,        \* per request in flight: the value of its Accept header
    ops,         \* history, per request: its cache and engine operations
    \* ---- the export run of plano-sync (main.rs, partitions.rs)
    sy_args,     \* Args: [partition_by, timestamp_col]
    sy_table,    \* the rows of the source table
    sy_pc,       \* where main is, or how it ended
    sy_fetched,  \* what was fetched from the source: "schema", "rows"
    sy_batch,    \* batch: the rows sync_table returned
    sy_groups,   \* groups: partition key -> row indices
    sy_dirs,     \* the directories created
    sy_files,    \* the files written: path -> rows
    sy_writes,   \* history: the keys of the write_partition calls, in order
    \* ---- the metrics decorator of the object store (metrics_object_store.rs)
    ms_counters, \* the plano_store_*_total counters, per operation
    ms_inner,    \* history: the calls the wrapped store saw, in order
    ms_direct,   \* history: the calls it sees when the client calls it directly
    ms_calls,    \* history: the calls the client made on the decorator
    \* ---- the start-up of plano-serv (main.rs main)
    sv_specs,    \* args.table_spec: the raw strings, in order
    sv_size,     \* the size handed to initialize_cache
    sv_pc,       \* "start", "register", "bind", "serving", "panic", "exit_err"
    sv_i,        \* register_tables: index of the next raw spec
    sv_ctx,      \* the engine's catalog: table name -> table
    sv_cap,      \* the capacity of the constructed cache, 0 before
    sv_canon,    \* history: the arguments of std::fs::canonicalize, in order
    sv_printed,  \* the "Registered table" lines: (name, store_url)
    \* ---- the cache statistics (cached_stats.rs)
    cs_usage,    \* capacity_usage
    cs_usage_gauge, \* the gauge object_store_usage
    cs_max,      \* max_capacity
    cs_capacity_gauge, \* the gauge object_store_capacity
    cs_reads,    \* total_reads
    cs_misses,   \* total_misses
    cs_last,     \* history: the last operation, with usage before it
    \* ---- the source side of the export (rds-sync lib.rs)
    rd_columns,  \* information_schema.columns of the table, in ordinal order
    rd_nrows,    \* the number of rows of the table
    rd_pc,       \* "infer", "sync", "done", "err_infer", "err_sync"
    rd_schema,   \* the Schema infer_arrow_schema returned
    rd_batch,    \* the RecordBatch sync_table returned
    rd_err       \* the error message of the Err returned

parseVars == <<raw, form, parsed, variant>>
regVars == <<table_specs, files, catalog, reg_i, reg_result, calls, rds_status>>

startVars == <<prog, tables, globbed, table_paths, views, st_i, st_pc, errlog>>

cacheVars == <<cap, cache, recent, rpc, rsql, rres, resp, handler, lock, racc, ops>>

syncVars == <<sy_args, sy_table, sy_pc, sy_fetched, sy_batch, sy_groups, sy_dirs, sy_files, sy_writes>>

storeVars == <<ms_counters, ms_inner, ms_direct, ms_calls>>

servVars == <<sv_specs, sv_size, sv_pc, sv_i, sv_ctx, sv_cap, sv_canon, sv_printed>>

statsVars == <<cs_usage, cs_usage_gauge, cs_max, cs_capacity_gauge, cs_reads, cs_misses, cs_last>>

rdsVars == <<rd_columns, rd_nrows, rd_pc, rd_schema, rd_batch, rd_err>>

vars == <<parseVars, regVars, startVars, cacheVars, syncVars, storeVars, servVars, statsVars, rdsVars>>

(***************************************************************************)
(* Bounds of the model.                                                    *)
(***************************************************************************)
\* longest arbitrary input string
MaxLen == 5
\* most partition columns of a composed table spec
MaxCols == 3
\* most table specs handed to register_tables
MaxSpecs == 3
\* most fields of an inferred file schema
MaxFields == 3
\* most --table arguments of queryd and query-cli
MaxTables == 3
\* largest capacity the query cache is built with
MaxCap == 2
\* most rows of the exported table
MaxRows == 3
\* most calls a client makes on the metrics decorator
MaxCalls == 2
\* most --table-spec arguments of plano-serv
MaxArgs == 2
\* largest value handed to a cache statistics operation, and largest usage
MaxVal == 3
\* most cache statistics operations of a behaviour
MaxStatOps == 3
\* most columns of the source table
MaxColumns == 2
\* most rows of the source table
MaxSourceRows == 2

(***************************************************************************)
(* Strings.                                                                *)
(***************************************************************************)
Chars == {"a", "b", "=", ":", ",", "/"}

RECURSIVE StringsUpTo(_)
StringsUpTo(n) ==
    IF n = 0 THEN {<<>>}
    ELSE LET shorter == StringsUpTo(n - 1)
         IN  shorter \cup {Append(s, c) : s \in {t \in shorter : Len(t) = n - 1}, c \in Chars}

SeqsUpTo(S, n) == UNION {[1..k -> S] : k \in 0..n}

Contains(s, c) == \E i \in 1..Len(s) : s[i] = c

\* str::find(c): 1-based index of the first c in s, 0 for None
find(s, c) ==
    IF Contains(s, c)
    THEN CHOOSE i \in 1..Len(s) : s[i] = c /\ \A j \in 1..(i - 1) : s[j] # c
    ELSE 0

\* str::rfind(c): 1-based index of the last c in s, 0 for None
rfind(s, c) ==
    IF Contains(s, c)
    THEN CHOOSE i \in 1..Len(s) : s[i] = c /\ \A j \in (i + 1)..Len(s) : s[j] # c
    ELSE 0

\* what follows position i of s
After(s, i) == SubSeq(s, i + 1, Len(s))
\* what precedes position i of s
Before(s, i) == SubSeq(s, 1, i - 1)

\* str::split(c) collected: the pieces between the occurrences of c, empty
\* pieces included
RECURSIVE split(_, _)
split(s, c) ==
    LET i == find(s, c)
    IN  IF i = 0 THEN <<s>>
        ELSE <<Before(s, i)>> \o split(After(s, i), c)

\* the pieces joined again with c between them
RECURSIVE Join(_, _)
Join(ps, c) ==
    IF ps = <<>> THEN <<>>
    ELSE IF Len(ps) = 1 THEN ps[1]
    ELSE ps[1] \o <<c>> \o Join(Tail(ps), c)

(***************************************************************************)
(* TableSpec and the two parsers.                                          *)
(***************************************************************************)
\* Ok(TableSpec { name, root, partitions })
OkSpec(n, r, ps) ==
    [ok |-> TRUE, name |-> n, root |-> r, partitions |-> ps, err |-> <<>>]

\* the backquote character of the error message
BackQuote == "BACKQUOTE"

\* mutant: a fixed message that leaves the input out
InvalidSpec_NoInput(s) == <<"Invalid table-spec ", BackQuote, BackQuote>>

\* format!("Invalid table-spec {BackQuote}{s}{BackQuote}")
InvalidSpec(s) == <<"Invalid table-spec ", BackQuote>> \o s \o <<BackQuote>>

\* Err(message): no TableSpec is built
ErrSpec(msg) ==
    [ok |-> FALSE, name |-> <<>>, root |-> <<>>, partitions |-> <<>>, err |-> msg]

NotParsed == ErrSpec(<<"not parsed">>)

\* mutant: the column list is never split at its commas
PartitionList_NoSplit(parts) == IF parts = <<>> THEN <<>> ELSE <<parts>>

\* parts.split(',') unless parts is empty
PartitionList(parts) == IF parts = <<>> THEN <<>> ELSE split(parts, ",")

\* mutant: the character after the colon is never looked at
SlashFollows_Never(rest, idx) == FALSE

\* rest.get(idx + 1..idx + 2) == Some("/")
SlashFollows(rest, idx) == idx + 1 <= Len(rest) /\ rest[idx + 1] = "/"

\* the (root, parts) pair of tables.rs: split at the last ':' unless a '/'
\* comes right after it
RootAndParts(rest) ==
    LET idx == rfind(rest, ":")
    IN  IF idx = 0 THEN <<rest, <<>> >>
        ELSE IF SlashFollows(rest, idx) THEN <<rest, <<>> >>
        ELSE <<Before(rest, idx), After(rest, idx)>>

\* TableSpec::parse of tables.rs
parse(s) ==
    LET eq == find(s, "=")
    IN  IF eq = 0 THEN ErrSpec(InvalidSpec(s))
        ELSE LET rp == RootAndParts(After(s, eq))
             IN  OkSpec(Before(s, eq), rp[1], PartitionList(rp[2]))

\* the (root, parts) pair of table_spec.rs: split at the first ':'
RootAndPartsFirst(rest) ==
    LET idx == find(rest, ":")
    IN  IF idx = 0 THEN <<rest, <<>> >>
        ELSE <<Before(rest, idx), After(rest, idx)>>

\* TableSpec::parse of table_spec.rs
table_spec_parse(s) ==
    LET eq == find(s, "=")
    IN  IF eq = 0 THEN ErrSpec(InvalidSpec(s))
        ELSE LET rp == RootAndPartsFirst(After(s, eq))
             IN  OkSpec(Before(s, eq), rp[1], PartitionList(rp[2]))

(***************************************************************************)
(* The inputs: every string up to MaxLen, and table specs composed as      *)
(* name=root[:col1,...,coln].                                              *)
(***************************************************************************)
SpecNames == {<<"a">>, <<"b", "/">>, <<"a", ":">>, <<>>}
PlainRoots == {<<"/", "a">>, <<"/", "a", "/", "b">>, <<"a", "=", "b">>, <<"/", "a", ",", "b">>, <<>>}
SchemeRoots == {<<"a", ":", "/", "/", "b", "/", "a">>, <<"a", ":", "/", "/", "b">>}
ColNames == {<<"a">>, <<"b">>, <<"a", "b">>, <<"a", "=">>}

\* name=root when there are no columns, name=root:col1,...,coln otherwise
Compose(n, r, cs) ==
    n \o <<"=">> \o r \o (IF cs = <<>> THEN <<>> ELSE <<":">> \o Join(cs, ","))

NoForm == [wf |-> FALSE, name |-> <<>>, root |-> <<>>, cols |-> <<>>]



(***************************************************************************)
(* Start-up table loading: main of queryd and main of query-cli.           *)
(***************************************************************************)
ViewNames == {"t", "u", "v"}
Patterns == {"p", "q"}

\* glob(pattern) filtered to *.parquet, and whether read_parquet succeeds
GlobOutcomes ==
    {[files |-> <<>>, readable |-> TRUE]} \cup
    {[files |-> <<f>>, readable |-> b] : f \in {"part.parquet"}, b \in BOOLEAN}

\* no entry / no view under a name
NoFiles == [present |-> FALSE, pattern |-> "", files |-> <<>>]

\* an entry of table_paths, or a registered view, made from a pattern's files
FilesOf(pat, fs) == [present |-> TRUE, pattern |-> pat, files |-> fs]

(***************************************************************************)
(* Table registration: register_table / register_tables of tables.rs and   *)
(* the /rds handler, over the engine's table catalog.                      *)
(***************************************************************************)
TableNames == {"t", "u", "signalk_2"}
Roots == {"/a", "/b"}
FieldNames == {"x", "year", "month"}

\* the physical type of a file column
FieldType(n) == IF n = "x" THEN "Int64" ELSE "Utf8"

\* Field::new(name, type, nullable)
Field(n) == [name |-> n, dtype |-> FieldType(n)]

\* the schemas inference can return: up to MaxFields fields, names distinct
FileSchemas ==
    {s \in SeqsUpTo({Field(n) : n \in FieldNames}, MaxFields) :
        \A i \in 1..Len(s), j \in 1..Len(s) : i # j => s[i].name # s[j].name}

\* base_opts.infer_schema(&session_state, &table_url).await: Ok(schema) or Err
InferOutcomes ==
    {[ok |-> TRUE, schema |-> s] : s \in FileSchemas} \cup {[ok |-> FALSE, schema |-> <<>>]}

\* the table specs of the command line
SpecPool ==
    {[name |-> n, root |-> rp[1], partitions |-> rp[2]] :
        n \in {"t", "u"},
        rp \in {<<"/a", <<>> >>, <<"/b", <<"year">> >>, <<"/a", <<"year", "month">> >>}}

\* no table under a name
NoTable == [kind |-> "none", root |-> "", schema |-> <<>>, partitions |-> <<>>, rows |-> 0]

\* ListingTable::try_new(cfg): root, the schema handed over, and the partition
\* columns, each typed Utf8
ListingTable(root, schema, parts) ==
    [kind |-> "listing", root |-> root, schema |-> schema,
     partitions |-> [i \in 1..Len(parts) |-> [name |-> parts[i], dtype |-> "Utf8"]],
     rows |-> 0]

\* MemTable::try_new(schema, vec![vec![batch]]) of handle_rds
MemTable(n) ==
    [kind |-> "mem", root |-> "",
     schema |-> <<[name |-> "name", dtype |-> "Utf8"], [name |-> "uuid", dtype |-> "Utf8"],
                  [name |-> "speed", dtype |-> "Int32"]>>,
     partitions |-> <<>>, rows |-> n]

\* mutant: the partition columns are kept and the other fields dropped
clean_fields_Inverted(file_schema, partitions) ==
    SelectSeq(file_schema, LAMBDA f : \E i \in 1..Len(partitions) : partitions[i] = f.name)

\* the file columns that are not partition keys, in file order
clean_fields(file_schema, partitions) ==
    SelectSeq(file_schema, LAMBDA f : ~\E i \in 1..Len(partitions) : partitions[i] = f.name)

\* SessionContext::register_table: the schema provider refuses a name that is
\* already bound ("The table ... already exists"), which is why handle_rds
\* deregisters first
ctx_register_table(cat, name, table) ==
    IF cat[name].kind # "none"
    THEN [ok |-> FALSE, catalog |-> cat]
    ELSE [ok |-> TRUE, catalog |-> [cat EXCEPT ![name] = table]]

\* SessionContext::deregister_table(name).ok()
ctx_deregister_table(cat, name) == [cat EXCEPT ![name] = NoTable]

\* register_table(ctx, spec): infer the file schema, drop the partition
\* columns from it, build the ListingTable and register it under spec.name;
\* `?` returns the first error
register_table(cat, fs, spec) ==
    LET inferred == fs[spec.root]
    IN  IF ~inferred.ok
        THEN [ok |-> FALSE, catalog |-> cat, file_schema |-> <<>>, table |-> NoTable]
        ELSE LET table == ListingTable(spec.root,
                                       clean_fields(inferred.schema, spec.partitions),
                                       spec.partitions)
                 reg   == ctx_register_table(cat, spec.name, table)
             IN  [ok |-> reg.ok, catalog |-> reg.catalog,
                  file_schema |-> inferred.schema, table |-> table]

(***************************************************************************)
(* The query cache (lru::LruCache behind a tokio Mutex) and handle_query.  *)
(***************************************************************************)
Queries == {"Q1", "Q2", "Q3"}
\* the form of a request without an sql field
NoSql == "NOSQL"
\* the batches the engine returns
Results == {"r1"}
\* the request slots: requests in flight at the same time
Reqs == {"a", "b"}

\* the keys of the cache, most recently used first
CacheKeys(c) == [i \in 1..Len(c) |-> c[i].key]

\* the position of key k in cache c, 0 when absent
CacheFind(c, k) ==
    IF \E i \in 1..Len(c) : c[i].key = k
    THEN CHOOSE i \in 1..Len(c) : c[i].key = k
    ELSE 0

\* cache c without its i-th entry
Without(c, i) == SubSeq(c, 1, i - 1) \o SubSeq(c, i + 1, Len(c))

\* mutant: the probe never finds anything
cache_get_AlwaysMiss(c, k) == [hit |-> FALSE, val |-> "", cache |-> c]

\* mutant: a hit returns the value and leaves the order alone (a peek)
cache_get_NoPromote(c, k) ==
    LET i == CacheFind(c, k)
    IN  IF i = 0 THEN [hit |-> FALSE, val |-> "", cache |-> c]
        ELSE [hit |-> TRUE, val |-> c[i].val, cache |-> c]

\* LruCache::get: None on a miss; a hit returns the value and moves the entry
\* to the front
cache_get(c, k) ==
    LET i == CacheFind(c, k)
    IN  IF i = 0 THEN [hit |-> FALSE, val |-> "", cache |-> c]
        ELSE [hit |-> TRUE, val |-> c[i].val, cache |-> <<c[i]>> \o Without(c, i)]

\* mutant: a new key is put at the front and nothing is dropped
cache_put_NoEvict(c, capacity, k, v) ==
    LET i == CacheFind(c, k)
        e == [key |-> k, val |-> v]
    IN  IF i # 0 THEN <<e>> \o Without(c, i) ELSE <<e>> \o c

\* LruCache::put: a present key gets the new value and moves to the front; a
\* new key is put at the front, after the last entry was dropped from a full
\* cache
cache_put(c, capacity, k, v) ==
    LET i == CacheFind(c, k)
        e == [key |-> k, val |-> v]
    IN  IF i # 0 THEN <<e>> \o Without(c, i)
        ELSE IF Len(c) >= capacity THEN <<e>> \o SubSeq(c, 1, capacity - 1)
        ELSE <<e>> \o c

\* the history of touches after key k was put or hit
Touch(h, k) == <<k>> \o SelectSeq(h, LAMBDA x : x # k)

\* the two handle_query of the crate: routes/query_route.rs and main.rs
Handlers == {"query_route", "main"}

\* the values an Accept header can have, and the request without the header
Accepts == {"application/json", "text/csv", "text/plain", "text/html"}
NoAccept == "NOACCEPT"
\* a response built without a Content-Type header
NoHeader == "NOHEADER"

\* determine_output_format of POST /query: the header, or text/plain when
\* there is none
determine_output_format(accept) ==
    LET a == IF accept = NoAccept THEN "text/plain" ELSE accept
    IN  CASE a = "application/json" -> "Json"
          [] a = "text/csv" -> "Csv"
          [] OTHER -> "Text"

\* determine_content_type
determine_content_type(format) ==
    CASE format = "Json" -> "application/json"
      [] format = "Csv" -> "text/csv"
      [] OTHER -> "text/plain"

\* the output format of GET /tables: the header, or application/json when
\* there is none
tables_output_format(accept) ==
    LET a == IF accept = NoAccept THEN "application/json" ELSE accept
    IN  CASE a = "text/csv" -> "Csv"
          [] a = "text/plain" -> "Text"
          [] OTHER -> "Json"

\* format_batches: the body is the batches written in the format
format_batches(batches, format) == <<format, batches>>

\* a response: status, where the batches came from, body, Content-Type
Response(status, from, body, ctype) ==
    [status |-> status, from |-> from, body |-> body, ctype |-> ctype]

\* no response yet
NoResp == Response(0, "none", <<>>, NoHeader)

(***************************************************************************)
(* The export run of plano-sync: Args, the batch, partition keys, paths.   *)
(***************************************************************************)
\* the columns of the exported table, by name
ColA == <<"a">>
ColB == <<"b">>
ColTs == <<"t", "s">>
\* a name that is no column of the table
ColNone == <<"c">>
\* the reserved partition keys
Year == <<"y", "e", "a", "r">>
Month == <<"m", "o", "n", "t", "h">>
Day == <<"d", "a", "y">>
Hour == <<"h", "o", "u", "r">>
reserved == {Year, Month, Day, Hour}

\* --timestamp-col not given
None == "NONE"

\* a cell of a StringArray: null, or a string
Utf8(s) == [type |-> "Utf8", null |-> FALSE, s |-> s]
NullUtf8 == [type |-> "Utf8", null |-> TRUE, s |-> <<>>]
\* a cell of a TimestampMicrosecondArray
Timestamp(y, m, d, h) == [type |-> "Timestamp", year |-> y, month |-> m, day |-> d, hour |-> h]

\* the schema infer_arrow_schema returns: the column names in order
Schema == <<ColA, ColB, ColTs>>

\* build_column_index_map: column name -> index; 0 for no entry
build_column_index_map(schema) ==
    [n \in {ColA, ColB, ColTs, ColNone} |->
        IF \E i \in 1..Len(schema) : schema[i] = n
        THEN CHOOSE i \in 1..Len(schema) : schema[i] = n
        ELSE 0]

\* the rows a table can hold: cells of a, b, ts
RowPool ==
    { <<Utf8(<<"x">>), Utf8(<<"x">>), Timestamp(2024, 1, 5, 3)>>,
      <<Utf8(<<"X">>), Utf8(<<"x">>), Timestamp(2024, 3, 5, 13)>>,
      <<Utf8(<<>>), Utf8(<<"x">>), Timestamp(2023, 1, 5, 3)>>,
      <<NullUtf8, Utf8(<<"x">>), Timestamp(2024, 1, 5, 3)>>,
      <<Utf8(<<"x", "/", "b", "=", "y">>), Utf8(<<"x">>), Timestamp(2024, 1, 5, 3)>>,
      <<Utf8(<<"x">>), Utf8(<<"y", "/", "b", "=", "x">>), Timestamp(2024, 1, 6, 3)>>,
      <<Utf8(<<"x", "/">>), Utf8(<<"x">>), Timestamp(2024, 1, 5, 14)>> }

\* the --partition-by lists of a run
PartitionLists ==
    { <<>>, <<ColA>>, <<ColB>>, <<ColA, ColB>>, <<Year>>, <<Year, Month>>,
      <<ColA, Hour>>, <<Day>>, <<ColTs>>, <<ColNone>> }

\* the decimal digits of a natural number: to_string()
Digit(d) == <<"0", "1", "2", "3", "4", "5", "6", "7", "8", "9">>[d + 1]
RECURSIVE Digits(_)
Digits(n) == IF n < 10 THEN <<Digit(n)>> ELSE Digits(n \div 10) \o <<Digit(n % 10)>>
\* mutant: the number without padding
Pad2_NoPad(n) == Digits(n)

\* format!("{:02}", n)
Pad2(n) == IF n < 10 THEN <<"0">> \o Digits(n) ELSE Digits(n)

\* mutant: no partition key is looked at
validate_partition_keys_Skipped(args) == TRUE

\* validate_partition_keys: FALSE when the run is to exit with status 1
validate_partition_keys(args) ==
    ~(/\ args.timestamp_col = None
      /\ \E i \in 1..Len(args.partition_by) : args.partition_by[i] \in reserved)

\* the part of one partition key of build_partition_key: "{key}={val}", or
\* the panic of an expect
KeyPart(key, row, batch, args, idx_map) ==
    IF key \in reserved
    THEN IF args.timestamp_col = None THEN [panic |-> TRUE, s |-> <<>>]
         ELSE LET col_idx == idx_map[args.timestamp_col]
              IN  IF col_idx = 0 THEN [panic |-> TRUE, s |-> <<>>]
                  ELSE LET ts == batch[row + 1][col_idx]
                       IN  IF ts.type # "Timestamp" THEN [panic |-> TRUE, s |-> <<>>]
                           ELSE LET val == CASE key = Year -> Digits(ts.year)
                                             [] key = Month -> Pad2(ts.month)
                                             [] key = Day -> Pad2(ts.day)
                                             [] OTHER -> Pad2(ts.hour)
                                IN  [panic |-> FALSE, s |-> key \o <<"=">> \o val]
    ELSE LET col_idx == idx_map[key]
         IN  IF col_idx = 0 THEN [panic |-> TRUE, s |-> <<>>]
             ELSE LET arr == batch[row + 1][col_idx]
                  IN  IF arr.type # "Utf8" THEN [panic |-> TRUE, s |-> <<>>]
                      ELSE [panic |-> FALSE, s |-> key \o <<"=">> \o arr.s]

\* build_partition_key: the parts of all partition keys joined with "/"
build_partition_key(row, batch, args, idx_map) ==
    LET parts == [i \in 1..Len(args.partition_by) |->
                     KeyPart(args.partition_by[i], row, batch, args, idx_map)]
    IN  IF \E i \in 1..Len(parts) : parts[i].panic
        THEN [panic |-> TRUE, key |-> <<>>]
        ELSE [panic |-> FALSE, key |-> Join([i \in 1..Len(parts) |-> parts[i].s], "/")]

\* no group yet: HashMap::new()
NoGroups == [k \in {} |-> <<>>]

\* mutant: the vector of a key is replaced by the new row
GroupInsert_Replaces(groups, group_key, row) ==
    [k \in (DOMAIN groups) \cup {group_key} |->
        IF k = group_key THEN <<row>> ELSE groups[k]]

\* groups.entry(group_key).or_default().push(row)
GroupInsert(groups, group_key, row) ==
    [k \in (DOMAIN groups) \cup {group_key} |->
        IF k = group_key
        THEN IF k \in DOMAIN groups THEN Append(groups[k], row) ELSE <<row>>
        ELSE groups[k]]

\* group_rows_by_partition from row on: the loop over 0..batch.num_rows()
RECURSIVE GroupFrom(_, _, _, _, _)
GroupFrom(row, groups, batch, args, idx_map) ==
    IF row >= Len(batch) THEN [panic |-> FALSE, groups |-> groups]
    ELSE LET k == build_partition_key(row, batch, args, idx_map)
         IN  IF k.panic THEN [panic |-> TRUE, groups |-> NoGroups]
             ELSE GroupFrom(row + 1, GroupInsert(groups, k.key, row), batch, args, idx_map)

group_rows_by_partition(batch, args, idx_map) ==
    GroupFrom(0, NoGroups, batch, args, idx_map)

\* --output-dir, --table and the file names, as path components
OutputDir == <<"out">>
Table == <<"t">>
TableFile == <<"t.parquet">>
PartFile == <<"part-00000.parquet">>

\* the components of a relative path: what lies between the "/", the empty
\* pieces of a doubled or trailing "/" dropped (std::path::Path)
Components(s) == SelectSeq(split(s, "/"), LAMBDA c : c # <<>>)

\* Path::new(&args.output_dir).join(&args.table).join(grp)
PartitionDir(grp) == <<OutputDir, Table>> \o Components(grp)

\* fs::create_dir_all: the directory and every missing ancestor below the
\* working directory
create_dir_all(dirs, dir) == dirs \cup {SubSeq(dir, 1, n) : n \in 1..Len(dir)}

\* File::create and the writer: the file at path holds rows, whatever it held
WriteFile(fs, path, rows) ==
    [f \in (DOMAIN fs) \cup {path} |-> IF f = path THEN rows ELSE fs[f]]

\* take(): the rows of the batch at the indices
take(batch, indices) == [i \in 1..Len(indices) |-> batch[indices[i] + 1]]

\* what a file holds that was created and not written to its end: no rows
Truncated == <<>>

\* no file
NoFile == [f \in {} |-> <<>>]

(***************************************************************************)
(* The metrics decorator of the object store (metrics_object_store.rs).    *)
(***************************************************************************)
\* the operations MetricsObjectStore implements itself, each with a counter
Overridden ==
    {"put_opts", "put_multipart_opts", "get_opts", "delete", "list",
     "list_with_delimiter", "copy", "copy_if_not_exists", "get_range"}

\* object locations, and the byte ranges of a ranged read
Locations == {"p", "q"}
Ranges == {"r1", "r2"}
\* what the wrapped store answers
Outcomes == {"Ok", "Err"}

\* the arguments of the operations: one location, a (from, to) pair, a
\* location with a range, a location with two ranges
OneLocation == {<<l>> : l \in Locations}
FromTo == {<<"p", "q">>, <<"q", "p">>}
LocationRange == {<<l, r>> : l \in Locations, r \in Ranges}
LocationRanges == {<<l, "r1", "r2">> : l \in Locations}

\* one call of an operation with its arguments and its result
StoreCall(op, args, result) == [op |-> op, args |-> args, result |-> result]

\* COUNTER.increment(1) of the static counter of an operation
increment(counters, op) == [counters EXCEPT ![op] = @ + 1]

(***************************************************************************)
(* The start-up of plano-serv (main.rs).                                   *)
(***************************************************************************)
S3Scheme == <<"s", "3", ":", "/", "/">>
FileScheme == <<"f", "i", "l", "e", ":", "/", "/">>

\* str::starts_with
starts_with(s, prefix) == Len(s) >= Len(prefix) /\ SubSeq(s, 1, Len(prefix)) = prefix

\* the file system the server starts on: a directory /d, the same directory
\* named with a trailing slash, a symbolic link /l to it, and a path that
\* does not exist
Dir == <<"/", "d">>
DirSlash == <<"/", "d", "/">>
Link == <<"/", "l">>
Missing == <<"/", "x">>
S3Root == S3Scheme \o <<"b", "/", "u">>

\* the spec of the s3 table: u=s3://b/u
S3Spec == <<"u", "=">> \o S3Root

\* the --table-spec arguments a run draws from
RawSpecs ==
    {<<"a", "=">> \o Dir, <<"b", "=">> \o DirSlash, <<"c", "=">> \o Link \o <<":", "y">>,
     <<"a", "=">> \o Link, S3Spec, <<"x", "=">> \o Missing, <<"b", "a", "d">>}

\* the table names of those arguments
ServNames == {table_spec_parse(r).name : r \in RawSpecs}

\* std::fs::canonicalize: the absolute path with links resolved and no
\* trailing slash, an error for a path that does not exist
canonicalize(path) ==
    IF path \in {Dir, DirSlash, Link}
    THEN [ok |-> TRUE, path |-> Dir]
    ELSE [ok |-> FALSE, path |-> <<>>]

\* ListingTableUrl::parse(&spec.root): a URL is kept; a path of a directory
\* becomes a file URL of that path as given, with one trailing slash
ListingTableUrl_parse(root) ==
    IF starts_with(root, S3Scheme) THEN root
    ELSE FileScheme \o (IF root # <<>> /\ root[Len(root)] = "/" THEN root ELSE root \o <<"/">>)

\* the literal of initialize_cache(100)
CacheSize == 100

\* mutant: a cache of any size is constructed
initialize_cache_NoCheck(size) == [ok |-> TRUE, cap |-> size]

\* initialize_cache(size): NonZero::new(size).expect(..) panics on zero
initialize_cache(size) ==
    IF size = 0 THEN [ok |-> FALSE, cap |-> 0] ELSE [ok |-> TRUE, cap |-> size]

(***************************************************************************)
(* The source side of the export (rds-sync lib.rs).                        *)
(***************************************************************************)
\* the data_type values of information_schema.columns a table is drawn from
SqlTypes ==
    {"integer", "int4", "bigint", "int8", "smallint", "int2", "text",
     "character varying", "varchar", "boolean", "timestamp without time zone",
     "date", "numeric", "decimal", "double precision", "uuid"}

Unsupported == "unsupported"

\* the match of infer_arrow_schema
arrow_type(sql_type) ==
    CASE sql_type \in {"integer", "int4"} -> "Int32"
      [] sql_type \in {"bigint", "int8"} -> "Int64"
      [] sql_type \in {"smallint", "int2"} -> "Int16"
      [] sql_type \in {"text", "character varying", "varchar"} -> "Utf8"
      [] sql_type = "boolean" -> "Boolean"
      [] sql_type = "timestamp without time zone" -> "Timestamp(Microsecond, None)"
      [] sql_type = "date" -> "Date32"
      [] sql_type \in {"numeric", "decimal", "double precision"} -> "Float64"
      [] OTHER -> Unsupported

\* the column names, by ordinal position
ColumnName(i) == IF i = 1 THEN "c1" ELSE IF i = 2 THEN "c2" ELSE "c3"

\* the rows of information_schema.columns of a table
ColumnSets ==
    UNION {{[i \in 1..k |-> [column_name |-> ColumnName(i), data_type |-> ts[i],
                             is_nullable |-> "YES"]] : ts \in [1..k -> SqlTypes]}
           : k \in 0..MaxColumns}

\* Field::new(&name, arrow_type, nullable)
SchemaField(name, arrow, nullable) == [name |-> name, data_type |-> arrow, nullable |-> nullable]

\* infer_arrow_schema over the fetched rows: bail! at the first column whose
\* type the match does not know, else the fields in ordinal order
infer_arrow_schema(columns) ==
    LET bad == {i \in 1..Len(columns) : arrow_type(columns[i].data_type) = Unsupported}
    IN  IF bad # {}
        THEN LET i == CHOOSE j \in bad : \A k \in bad : j <= k
             IN  [ok |-> FALSE, schema |-> <<>>,
                  err |-> <<"Unsupported SQL type", columns[i].data_type>>]
        ELSE [ok |-> TRUE,
              schema |-> [i \in 1..Len(columns) |->
                            SchemaField(columns[i].column_name,
                                        arrow_type(columns[i].data_type),
                                        columns[i].is_nullable = "YES")],
              err |-> <<>>]

\* the arms of the match of sync_table that build an array
Materialized ==
    {"Float64", "Int64", "Utf8", "Boolean", "Int32", "Timestamp(Microsecond, None)"}

\* the array a builder finishes: one value per fetched row
build_array(field, nrows) == [r \in 1..nrows |-> field.data_type]

\* sync_table over the fetched rows: bail! at the first field no arm builds,
\* else RecordBatch::try_new(schema, columns)
sync_table(schema, nrows) ==
    LET bad == {i \in 1..Len(schema) : schema[i].data_type \notin Materialized}
    IN  IF bad # {}
        THEN LET i == CHOOSE j \in bad : \A k \in bad : j <= k
             IN  [ok |-> FALSE, batch |-> <<>>,
                  err |-> <<"Unsupported data type", schema[i].name, schema[i].data_type>>]
        ELSE [ok |-> TRUE,
              batch |-> [i \in 1..Len(schema) |->
                           [field |-> schema[i], values |-> build_array(schema[i], nrows)]],
              err |-> <<>>]

\* the RecordBatch of a run that has none
NoBatch == <<>>

\* the last cache statistics operation of a behaviour that made none
NoStatOp == [op |-> "none", val |-> 0, before |-> 0, n |-> 0]

(***************************************************************************)
(* The variables of the components a behaviour leaves alone.               *)
(***************************************************************************)
\* the parser variables of a behaviour that parses nothing
ParseIdle ==
    /\ raw = <<>>
    /\ form = NoForm
    /\ parsed = NotParsed
    /\ variant = "idle"

\* the registration variables of a behaviour that registers nothing
RegIdle ==
    /\ table_specs = <<>>
    /\ files = [r \in Roots |-> [ok |-> FALSE, schema |-> <<>>]]
    /\ catalog = [n \in TableNames |-> NoTable]
    /\ reg_i = 1
    /\ reg_result = "ok"
    /\ calls = <<>>
    /\ rds_status = "none"

\* the start-up variables of a behaviour that starts no server
StartIdle ==
    /\ prog = "none"
    /\ tables = <<>>
    /\ globbed = [pt \in Patterns |-> [files |-> <<>>, readable |-> TRUE]]
    /\ table_paths = [n \in ViewNames |-> NoFiles]
    /\ views = [n \in ViewNames |-> NoFiles]
    /\ st_i = 1
    /\ st_pc = "idle"
    /\ errlog = <<>>

\* the cache variables of a behaviour that serves no query
CacheIdle ==
    /\ cap = 1
    /\ cache = <<>>
    /\ recent = <<>>
    /\ rpc = [r \in Reqs |-> "off"]
    /\ rsql = [r \in Reqs |-> NoSql]
    /\ rres = [r \in Reqs |-> ""]
    /\ resp = [r \in Reqs |-> NoResp]
    /\ handler = "query_route"
    /\ lock = "free"
    /\ racc = [r \in Reqs |-> NoAccept]
    /\ ops = [r \in Reqs |-> <<>>]

\* the export variables of a behaviour that exports nothing
SyncIdle ==
    /\ sy_args = [partition_by |-> <<>>, timestamp_col |-> None]
    /\ sy_table = <<>>
    /\ sy_pc = "idle"
    /\ sy_fetched = {}
    /\ sy_batch = <<>>
    /\ sy_groups = NoGroups
    /\ sy_dirs = {}
    /\ sy_files = NoFile
    /\ sy_writes = <<>>

\* the decorator variables of a behaviour that calls no store
StoreIdle ==
    /\ ms_counters = [op \in Overridden |-> 0]
    /\ ms_inner = <<>>
    /\ ms_direct = <<>>
    /\ ms_calls = <<>>

\* the plano-serv variables of a behaviour that starts no plano-serv
ServIdle ==
    /\ sv_specs = <<>>
    /\ sv_size = CacheSize
    /\ sv_pc = "idle"
    /\ sv_i = 1
    /\ sv_ctx = [n \in ServNames |-> NoTable]
    /\ sv_cap = 0
    /\ sv_canon = <<>>
    /\ sv_printed = <<>>

\* the statistics variables of a behaviour that keeps no statistics
StatsIdle ==
    /\ cs_usage = 0
    /\ cs_usage_gauge = 0
    /\ cs_max = 0
    /\ cs_capacity_gauge = 0
    /\ cs_reads = 0
    /\ cs_misses = 0
    /\ cs_last = NoStatOp

\* the source variables of a behaviour that reads no source table
RdsIdle ==
    /\ rd_columns = <<>>
    /\ rd_nrows = 0
    /\ rd_pc = "idle"
    /\ rd_schema = <<>>
    /\ rd_batch = NoBatch
    /\ rd_err = <<>>

(***************************************************************************)
(* Table registration as a state machine.                                  *)
(***************************************************************************)
RegInit ==
    /\ ParseIdle
    /\ StartIdle
    /\ CacheIdle
    /\ table_specs \in SeqsUpTo(SpecPool, MaxSpecs)
    /\ files \in [Roots -> InferOutcomes]
    /\ catalog = [n \in TableNames |-> NoTable]
    /\ reg_i = 1
    /\ reg_result = "running"
    /\ calls = <<>>
    /\ rds_status = "none"
    /\ SyncIdle
    /\ StoreIdle
    /\ ServIdle
    /\ StatsIdle
    /\ RdsIdle

\* mutant: a failed registration is remembered and the loop goes on with the
\* next spec
RegisterTablesStep_GoesOn ==
    /\ reg_result \in {"running", "err"}
    /\ Len(calls) < Len(table_specs)
    /\ LET spec == table_specs[Len(calls) + 1]
           r    == register_table(catalog, files, spec)
       IN  /\ calls' = Append(calls, [spec |-> spec, ok |-> r.ok,
                                      file_schema |-> r.file_schema, table |-> r.table])
           /\ catalog' = r.catalog
           /\ reg_result' = IF r.ok THEN reg_result ELSE "err"
           /\ reg_i' = IF reg_result = "running" /\ r.ok THEN reg_i + 1 ELSE reg_i
    /\ UNCHANGED <<table_specs, files, rds_status>>
    /\ UNCHANGED <<parseVars, startVars, cacheVars, syncVars, storeVars, servVars, statsVars, rdsVars>>

\* one turn of the loop of register_tables: register_table(ctx, spec).await?
RegisterTablesStep ==
    /\ reg_result = "running"
    /\ reg_i <= Len(table_specs)
    /\ LET spec == table_specs[reg_i]
           r    == register_table(catalog, files, spec)
       IN  /\ calls' = Append(calls, [spec |-> spec, ok |-> r.ok,
                                      file_schema |-> r.file_schema, table |-> r.table])
           /\ catalog' = r.catalog
           /\ reg_result' = IF r.ok THEN "running" ELSE "err"
           /\ reg_i' = IF r.ok THEN reg_i + 1 ELSE reg_i
    /\ UNCHANGED <<table_specs, files, rds_status>>
    /\ UNCHANGED <<parseVars, startVars, cacheVars, syncVars, storeVars, servVars, statsVars, rdsVars>>

\* the loop of register_tables is through: Ok(())
RegisterTablesReturn ==
    /\ reg_result = "running"
    /\ reg_i > Len(table_specs)
    /\ reg_result' = "ok"
    /\ UNCHANGED <<table_specs, files, catalog, reg_i, calls, rds_status>>
    /\ UNCHANGED <<parseVars, startVars, cacheVars, syncVars, storeVars, servVars, statsVars, rdsVars>>

\* the row counts a fetch from the relational source can bring
RdsRows == {1, 2}

\* GET /rds once the server serves: the rows are fetched, the batch and the
\* MemTable built, signalk_2 deregistered and registered again
HandleRds ==
    /\ reg_result = "ok"
    /\ \E n \in RdsRows :
         LET reg == ctx_register_table(ctx_deregister_table(catalog, "signalk_2"),
                                       "signalk_2", MemTable(n))
         IN  /\ catalog' = reg.catalog
             /\ rds_status' = IF reg.ok THEN "ok" ELSE "rejected"
    /\ UNCHANGED <<table_specs, files, reg_i, reg_result, calls>>
    /\ UNCHANGED <<parseVars, startVars, cacheVars, syncVars, storeVars, servVars, statsVars, rdsVars>>

\* GET /rds when the pool, the query or the batch fails: rejected before the
\* catalog is touched
HandleRdsRejected ==
    /\ reg_result = "ok"
    /\ rds_status' = "rejected"
    /\ UNCHANGED <<table_specs, files, catalog, reg_i, reg_result, calls>>
    /\ UNCHANGED <<parseVars, startVars, cacheVars, syncVars, storeVars, servVars, statsVars, rdsVars>>

RegNext ==
    \/ RegisterTablesStep
    \/ RegisterTablesReturn
    \/ HandleRds
    \/ HandleRdsRejected

SpecRegister == RegInit /\ [][RegNext]_vars

(***************************************************************************)
(* Start-up table loading as a state machine.                              *)
(***************************************************************************)
StartInit ==
    /\ ParseIdle
    /\ RegIdle
    /\ CacheIdle
    /\ prog \in {"queryd", "query-cli"}
    /\ tables \in SeqsUpTo([name : ViewNames, pattern : Patterns], MaxTables)
    /\ globbed \in [Patterns -> GlobOutcomes]
    /\ table_paths = [n \in ViewNames |-> NoFiles]
    /\ views = [n \in ViewNames |-> NoFiles]
    /\ st_i = 1
    /\ st_pc = "glob"
    /\ errlog = <<>>
    /\ SyncIdle
    /\ StoreIdle
    /\ ServIdle
    /\ StatsIdle
    /\ RdsIdle

\* mutant: an empty file list is inserted like any other
QuerydGlob_NoSkip ==
    /\ prog = "queryd" /\ st_pc = "glob" /\ st_i <= Len(tables)
    /\ LET e == tables[st_i]
       IN  table_paths' = [table_paths EXCEPT ![e.name] = FilesOf(e.pattern, globbed[e.pattern].files)]
    /\ st_i' = st_i + 1
    /\ UNCHANGED <<prog, tables, globbed, views, st_pc, errlog>>
    /\ UNCHANGED <<parseVars, regVars, cacheVars, syncVars, storeVars, servVars, statsVars, rdsVars>>

\* queryd, "Load tables from glob patterns": one turn of the loop
QuerydGlob ==
    /\ prog = "queryd" /\ st_pc = "glob" /\ st_i <= Len(tables)
    /\ LET e  == tables[st_i]
           fs == globbed[e.pattern].files
       IN  IF fs = <<>>
           THEN /\ errlog' = Append(errlog, e.name)
                /\ UNCHANGED table_paths
           ELSE /\ table_paths' = [table_paths EXCEPT ![e.name] = FilesOf(e.pattern, fs)]
                /\ UNCHANGED errlog
    /\ st_i' = st_i + 1
    /\ UNCHANGED <<prog, tables, globbed, views, st_pc>>
    /\ UNCHANGED <<parseVars, regVars, cacheVars, syncVars, storeVars, servVars, statsVars, rdsVars>>

\* queryd: the first loop is through
QuerydGlobDone ==
    /\ prog = "queryd" /\ st_pc = "glob" /\ st_i > Len(tables)
    /\ st_pc' = "load"
    /\ UNCHANGED <<prog, tables, globbed, table_paths, views, st_i, errlog>>
    /\ UNCHANGED <<parseVars, regVars, cacheVars, syncVars, storeVars, servVars, statsVars, rdsVars>>

\* queryd, "Explicitly load tables at startup": one turn of the loop over
\* table_paths, in the HashMap's order; read_parquet(...)? ends main
QuerydLoad(n) ==
    /\ prog = "queryd" /\ st_pc = "load"
    /\ table_paths[n].present /\ ~views[n].present
    /\ IF globbed[table_paths[n].pattern].readable
       THEN /\ views' = [views EXCEPT ![n] = table_paths[n]]
            /\ UNCHANGED st_pc
       ELSE /\ st_pc' = "exit_err"
            /\ UNCHANGED views
    /\ UNCHANGED <<prog, tables, globbed, table_paths, st_i, errlog>>
    /\ UNCHANGED <<parseVars, regVars, cacheVars, syncVars, storeVars, servVars, statsVars, rdsVars>>

\* queryd: every entry of table_paths is loaded; warp::serve
QuerydServe ==
    /\ prog = "queryd" /\ st_pc = "load"
    /\ \A n \in ViewNames : table_paths[n].present => views[n].present
    /\ st_pc' = "serving"
    /\ UNCHANGED <<prog, tables, globbed, table_paths, views, st_i, errlog>>
    /\ UNCHANGED <<parseVars, regVars, cacheVars, syncVars, storeVars, servVars, statsVars, rdsVars>>

\* query-cli: one turn of its loop: no file ends the process with status 1,
\* a failed read_parquet or register_table returns the error from main
CliLoad ==
    /\ prog = "query-cli" /\ st_pc = "glob" /\ st_i <= Len(tables)
    /\ LET e  == tables[st_i]
           fs == globbed[e.pattern].files
       IN  IF fs = <<>>
           THEN /\ errlog' = Append(errlog, e.name)
                /\ st_pc' = "exit_1"
                /\ UNCHANGED <<views, st_i>>
           ELSE /\ UNCHANGED errlog
                /\ IF globbed[e.pattern].readable /\ ~views[e.name].present
                   THEN /\ views' = [views EXCEPT ![e.name] = FilesOf(e.pattern, fs)]
                        /\ st_i' = st_i + 1
                        /\ UNCHANGED st_pc
                   ELSE /\ st_pc' = "exit_err"
                        /\ UNCHANGED <<views, st_i>>
    /\ UNCHANGED <<prog, tables, globbed, table_paths>>
    /\ UNCHANGED <<parseVars, regVars, cacheVars, syncVars, storeVars, servVars, statsVars, rdsVars>>

\* query-cli: every table is registered; the query or the REPL runs
CliRun ==
    /\ prog = "query-cli" /\ st_pc = "glob" /\ st_i > Len(tables)
    /\ st_pc' = "serving"
    /\ UNCHANGED <<prog, tables, globbed, table_paths, views, st_i, errlog>>
    /\ UNCHANGED <<parseVars, regVars, cacheVars, syncVars, storeVars, servVars, statsVars, rdsVars>>

StartNext ==
    \/ QuerydGlob
    \/ QuerydGlobDone
    \/ \E n \in ViewNames : QuerydLoad(n)
    \/ QuerydServe
    \/ CliLoad
    \/ CliRun

SpecStartup == StartInit /\ [][StartNext]_vars

(***************************************************************************)
(* POST /query over the shared cache as a state machine: each request is   *)
(* a task that gives way at its awaits.                                    *)
(***************************************************************************)
\* initialize_cache(size) with a non-zero size, no request in flight
CacheInit ==
    /\ ParseIdle
    /\ RegIdle
    /\ StartIdle
    /\ cap \in 1..MaxCap
    /\ cache = <<>>
    /\ recent = <<>>
    /\ rpc = [r \in Reqs |-> "idle"]
    /\ rsql = [r \in Reqs |-> NoSql]
    /\ rres = [r \in Reqs |-> ""]
    /\ resp = [r \in Reqs |-> NoResp]
    /\ handler \in Handlers
    /\ lock = "free"
    /\ racc = [r \in Reqs |-> NoAccept]
    /\ ops = [r \in Reqs |-> <<>>]
    /\ SyncIdle
    /\ StoreIdle
    /\ ServIdle
    /\ StatsIdle
    /\ RdsIdle

\* handle_query up to the cache probe: the form has an sql field
Arrive(r) ==
    /\ rpc[r] = "idle"
    /\ \E q \in Queries : rsql' = [rsql EXCEPT ![r] = q]
    /\ \E a \in Accepts \cup {NoAccept} : racc' = [racc EXCEPT ![r] = a]
    /\ rpc' = [rpc EXCEPT ![r] = "check"]
    /\ resp' = [resp EXCEPT ![r] = NoResp]
    /\ ops' = [ops EXCEPT ![r] = <<>>]
    /\ UNCHANGED <<cap, cache, recent, rres, handler, lock>>
    /\ UNCHANGED <<parseVars, regVars, startVars, syncVars, storeVars, servVars, statsVars, rdsVars>>

\* mutant: a form without sql is handled as a query with an empty text
BadRequest_Probes(r) ==
    /\ rpc[r] = "idle"
    /\ rsql' = [rsql EXCEPT ![r] = NoSql]
    /\ racc' = [racc EXCEPT ![r] = NoAccept]
    /\ rpc' = [rpc EXCEPT ![r] = "check"]
    /\ resp' = [resp EXCEPT ![r] = NoResp]
    /\ ops' = [ops EXCEPT ![r] = <<>>]
    /\ UNCHANGED <<cap, cache, recent, rres, handler, lock>>
    /\ UNCHANGED <<parseVars, regVars, startVars, syncVars, storeVars, servVars, statsVars, rdsVars>>

\* handle_query whose form has no sql field: 400 Bad Request
BadRequest(r) ==
    /\ rpc[r] = "idle"
    /\ rsql' = [rsql EXCEPT ![r] = NoSql]
    /\ racc' = [racc EXCEPT ![r] = NoAccept]
    /\ resp' = [resp EXCEPT ![r] = Response(400, "none", <<>>, NoHeader)]
    /\ ops' = [ops EXCEPT ![r] = <<>>]
    /\ UNCHANGED <<cap, cache, recent, rpc, rres, handler, lock>>
    /\ UNCHANGED <<parseVars, regVars, startVars, syncVars, storeVars, servVars, statsVars, rdsVars>>

\* cache.lock().await of the probe: the task waits until the Mutex is free
LockForGet(r) ==
    /\ rpc[r] = "check"
    /\ lock = "free"
    /\ lock' = r
    /\ rpc' = [rpc EXCEPT ![r] = "get"]
    /\ UNCHANGED <<cap, cache, recent, rsql, rres, resp, handler, racc, ops>>
    /\ UNCHANGED <<parseVars, regVars, startVars, syncVars, storeVars, servVars, statsVars, rdsVars>>

\* the probe under the lock, get(query). A miss drops the guard. On a hit
\* query_route.rs clones the batches, drops the guard and answers in the
\* format of the Accept header; main.rs borrows the batches from the cache,
\* so its guard lives on through the body of the if let
CheckCache(r) ==
    /\ rpc[r] = "get"
    /\ lock = r
    /\ LET g == cache_get(cache, rsql[r])
       IN  /\ cache' = g.cache
           /\ ops' = [ops EXCEPT ![r] = Append(@, "get")]
           /\ IF ~g.hit
              THEN /\ rpc' = [rpc EXCEPT ![r] = "exec"]
                   /\ lock' = "free"
                   /\ UNCHANGED <<recent, resp, rres, racc>>
              ELSE /\ recent' = Touch(recent, rsql[r])
                   /\ IF handler = "query_route"
                      THEN LET format == determine_output_format(racc[r])
                           IN  /\ resp' = [resp EXCEPT ![r] =
                                      Response(200, "cache", format_batches(g.val, format),
                                               determine_content_type(format))]
                               /\ rpc' = [rpc EXCEPT ![r] = "idle"]
                               /\ racc' = [racc EXCEPT ![r] = NoAccept]
                               /\ lock' = "free"
                               /\ UNCHANGED rres
                      ELSE /\ rres' = [rres EXCEPT ![r] = g.val]
                           /\ rpc' = [rpc EXCEPT ![r] = "hit"]
                           /\ UNCHANGED <<lock, resp, racc>>
    /\ UNCHANGED <<cap, rsql, handler>>
    /\ UNCHANGED <<parseVars, regVars, startVars, syncVars, storeVars, servVars, statsVars, rdsVars>>

\* main.rs, the body of the if let of a hit: the cached batches are written
\* as JSON into a response without Content-Type, then the guard is dropped
RespondHit(r) ==
    /\ rpc[r] = "hit"
    /\ lock = r
    /\ resp' = [resp EXCEPT ![r] =
           Response(200, "cache", format_batches(rres[r], "Json"), NoHeader)]
    /\ rres' = [rres EXCEPT ![r] = ""]
    /\ rpc' = [rpc EXCEPT ![r] = "idle"]
    /\ racc' = [racc EXCEPT ![r] = NoAccept]
    /\ lock' = "free"
    /\ UNCHANGED <<cap, cache, recent, rsql, handler, ops>>
    /\ UNCHANGED <<parseVars, regVars, startVars, syncVars, storeVars, servVars, statsVars, rdsVars>>

\* execute_query: ctx.sql(query) and collect() succeed
Execute(r) ==
    /\ rpc[r] = "exec"
    /\ \E v \in Results : rres' = [rres EXCEPT ![r] = v]
    /\ rpc' = [rpc EXCEPT ![r] = "put"]
    /\ ops' = [ops EXCEPT ![r] = Append(@, "exec")]
    /\ UNCHANGED <<cap, cache, recent, rsql, resp, handler, lock, racc>>
    /\ UNCHANGED <<parseVars, regVars, startVars, syncVars, storeVars, servVars, statsVars, rdsVars>>

\* mutant: a failed execution caches an empty result for the query
ExecuteFails_Caches(r) ==
    /\ rpc[r] = "exec"
    /\ rpc' = [rpc EXCEPT ![r] = "idle"]
    /\ cache' = cache_put(cache, cap, rsql[r], "")
    /\ recent' = Touch(recent, rsql[r])
    /\ resp' = [resp EXCEPT ![r] = Response(500, "engine", <<>>, NoHeader)]
    /\ ops' = [ops EXCEPT ![r] = Append(@, "exec")]
    /\ racc' = [racc EXCEPT ![r] = NoAccept]
    /\ UNCHANGED <<cap, rsql, rres, handler, lock>>
    /\ UNCHANGED <<parseVars, regVars, startVars, syncVars, storeVars, servVars, statsVars, rdsVars>>

\* execute_query: ctx.sql(query) or collect() fails; the error is the reply
ExecuteFails(r) ==
    /\ rpc[r] = "exec"
    /\ rpc' = [rpc EXCEPT ![r] = "idle"]
    /\ resp' = [resp EXCEPT ![r] = Response(500, "engine", <<>>, NoHeader)]
    /\ ops' = [ops EXCEPT ![r] = Append(@, "exec")]
    /\ racc' = [racc EXCEPT ![r] = NoAccept]
    /\ UNCHANGED <<cap, cache, recent, rsql, rres, handler, lock>>
    /\ UNCHANGED <<parseVars, regVars, startVars, syncVars, storeVars, servVars, statsVars, rdsVars>>

\* cache.lock().await of the put: the task waits until the Mutex is free
LockForPut(r) ==
    /\ rpc[r] = "put"
    /\ lock = "free"
    /\ lock' = r
    /\ rpc' = [rpc EXCEPT ![r] = "putting"]
    /\ UNCHANGED <<cap, cache, recent, rsql, rres, resp, handler, racc, ops>>
    /\ UNCHANGED <<parseVars, regVars, startVars, syncVars, storeVars, servVars, statsVars, rdsVars>>

\* put(query, results) under the lock, the guard dropped, and the response
\* built from results in the format of the Accept header
PutResult(r) ==
    /\ rpc[r] = "putting"
    /\ lock = r
    /\ cache' = cache_put(cache, cap, rsql[r], rres[r])
    /\ recent' = Touch(recent, rsql[r])
    /\ lock' = "free"
    /\ rpc' = [rpc EXCEPT ![r] = "idle"]
    /\ rres' = [rres EXCEPT ![r] = ""]
    /\ ops' = [ops EXCEPT ![r] = Append(@, "put")]
    /\ LET format == determine_output_format(racc[r])
       IN  resp' = [resp EXCEPT ![r] =
               Response(200, "engine", format_batches(rres[r], format),
                        determine_content_type(format))]
    /\ racc' = [racc EXCEPT ![r] = NoAccept]
    /\ UNCHANGED <<cap, rsql, handler>>
    /\ UNCHANGED <<parseVars, regVars, startVars, syncVars, storeVars, servVars, statsVars, rdsVars>>

\* GET /tables arrives; the handler counts the rows of every table
TablesArrive(r) ==
    /\ rpc[r] = "idle"
    /\ \E a \in Accepts \cup {NoAccept} : racc' = [racc EXCEPT ![r] = a]
    /\ rsql' = [rsql EXCEPT ![r] = NoSql]
    /\ rpc' = [rpc EXCEPT ![r] = "tables"]
    /\ resp' = [resp EXCEPT ![r] = NoResp]
    /\ ops' = [ops EXCEPT ![r] = <<>>]
    /\ UNCHANGED <<cap, cache, recent, rres, handler, lock>>
    /\ UNCHANGED <<parseVars, regVars, startVars, syncVars, storeVars, servVars, statsVars, rdsVars>>

\* handle_tables: the batch of table names and row counts is answered in
\* the format chosen from the Accept header
HandleTables(r) ==
    /\ rpc[r] = "tables"
    /\ LET output_format == tables_output_format(racc[r])
       IN  resp' = [resp EXCEPT ![r] =
               Response(200, "tables", format_batches("counts", output_format),
                        determine_content_type(output_format))]
    /\ rpc' = [rpc EXCEPT ![r] = "idle"]
    /\ racc' = [racc EXCEPT ![r] = NoAccept]
    /\ UNCHANGED <<cap, cache, recent, rsql, rres, handler, lock, ops>>
    /\ UNCHANGED <<parseVars, regVars, startVars, syncVars, storeVars, servVars, statsVars, rdsVars>>

CacheNext ==
    \E r \in Reqs :
        \/ Arrive(r)
        \/ BadRequest(r)
        \/ LockForGet(r)
        \/ CheckCache(r)
        \/ RespondHit(r)
        \/ Execute(r)
        \/ ExecuteFails(r)
        \/ LockForPut(r)
        \/ PutResult(r)
        \/ TablesArrive(r)
        \/ HandleTables(r)

SpecCache == CacheInit /\ [][CacheNext]_vars

(***************************************************************************)
(* One export run of plano-sync as a state machine.                        *)
(***************************************************************************)
\* main is entered with its Args; the table holds its rows
SyncInit ==
    /\ ParseIdle
    /\ RegIdle
    /\ StartIdle
    /\ CacheIdle
    /\ StoreIdle
    /\ ServIdle
    /\ StatsIdle
    /\ RdsIdle
    /\ \E pb \in PartitionLists, tc \in {None, ColTs} :
         sy_args = [partition_by |-> pb, timestamp_col |-> tc]
    /\ sy_table \in SeqsUpTo(RowPool, MaxRows)
    /\ sy_pc = "start"
    /\ sy_fetched = {}
    /\ sy_batch = <<>>
    /\ sy_groups = NoGroups
    /\ sy_dirs = {}
    /\ sy_files = NoFile
    /\ sy_writes = <<>>

\* DATABASE_URL is read and the pool connects: main goes on, panics without
\* the variable, or returns the error of connect
SyncConnect ==
    /\ sy_pc = "start"
    /\ sy_pc' \in {"validate", "panic_env", "err_connect"}
    /\ UNCHANGED <<sy_args, sy_table, sy_fetched, sy_batch, sy_groups, sy_dirs, sy_files, sy_writes>>
    /\ UNCHANGED <<parseVars, regVars, startVars, cacheVars, storeVars, servVars, statsVars, rdsVars>>

\* "Validate reserved keys only with timestamp_col": exit(1) on a reserved
\* key without --timestamp-col
SyncValidate ==
    /\ sy_pc = "validate"
    /\ sy_pc' = IF validate_partition_keys(sy_args) THEN "schema" ELSE "exit_1"
    /\ UNCHANGED <<sy_args, sy_table, sy_fetched, sy_batch, sy_groups, sy_dirs, sy_files, sy_writes>>
    /\ UNCHANGED <<parseVars, regVars, startVars, cacheVars, storeVars, servVars, statsVars, rdsVars>>

\* infer_arrow_schema(&args.table, &pool).await?
SyncInferSchema ==
    /\ sy_pc = "schema"
    /\ \/ /\ sy_fetched' = sy_fetched \cup {"schema"}
          /\ sy_pc' = "rows"
       \/ /\ sy_pc' = "err_source"
          /\ UNCHANGED sy_fetched
    /\ UNCHANGED <<sy_args, sy_table, sy_batch, sy_groups, sy_dirs, sy_files, sy_writes>>
    /\ UNCHANGED <<parseVars, regVars, startVars, cacheVars, storeVars, servVars, statsVars, rdsVars>>

\* sync_table(&args.table, &schema_ref, &pool).await?
SyncTable ==
    /\ sy_pc = "rows"
    /\ \/ /\ sy_fetched' = sy_fetched \cup {"rows"}
          /\ sy_batch' = sy_table
          /\ sy_pc' = IF sy_args.partition_by = <<>> THEN "single" ELSE "group"
       \/ /\ sy_pc' = "err_source"
          /\ UNCHANGED <<sy_fetched, sy_batch>>
    /\ UNCHANGED <<sy_args, sy_table, sy_groups, sy_dirs, sy_files, sy_writes>>
    /\ UNCHANGED <<parseVars, regVars, startVars, cacheVars, storeVars, servVars, statsVars, rdsVars>>

\* "Single file output": output_dir/table.parquet holds the batch; a ? that
\* fails leaves what the calls before it did
SyncWriteSingle ==
    /\ sy_pc = "single"
    /\ \/ /\ sy_dirs' = create_dir_all(sy_dirs, <<OutputDir>>)
          /\ sy_files' = WriteFile(sy_files, <<OutputDir, TableFile>>, sy_batch)
          /\ sy_pc' = "done"
       \/ /\ sy_pc' = "err_write"
          /\ UNCHANGED <<sy_dirs, sy_files>>
       \/ /\ sy_pc' = "err_write"
          /\ sy_dirs' = create_dir_all(sy_dirs, <<OutputDir>>)
          /\ UNCHANGED sy_files
       \/ /\ sy_pc' = "err_write"
          /\ sy_dirs' = create_dir_all(sy_dirs, <<OutputDir>>)
          /\ sy_files' = WriteFile(sy_files, <<OutputDir, TableFile>>, Truncated)
    /\ UNCHANGED <<sy_args, sy_table, sy_fetched, sy_batch, sy_groups, sy_writes>>
    /\ UNCHANGED <<parseVars, regVars, startVars, cacheVars, storeVars, servVars, statsVars, rdsVars>>

\* partition_and_write up to its loop: the index map and the groups; an
\* expect of build_partition_key that fails panics
SyncGroup ==
    /\ sy_pc = "group"
    /\ LET idx_map == build_column_index_map(Schema)
           groups  == group_rows_by_partition(sy_batch, sy_args, idx_map)
       IN  IF groups.panic
           THEN /\ sy_pc' = "panic_key"
                /\ UNCHANGED sy_groups
           ELSE /\ sy_pc' = "write"
                /\ sy_groups' = groups.groups
    /\ UNCHANGED <<sy_args, sy_table, sy_fetched, sy_batch, sy_dirs, sy_files, sy_writes>>
    /\ UNCHANGED <<parseVars, regVars, startVars, cacheVars, storeVars, servVars, statsVars, rdsVars>>

\* the groups the loop has not come to yet
Unwritten ==
    {k \in DOMAIN sy_groups : \A i \in 1..Len(sy_writes) : sy_writes[i] # k}

\* one turn of "for (grp, indices) in groups", in the HashMap's order:
\* write_partition(grp, indices, ...)?; create_dir_all, File::create or the
\* writer can fail, and what the calls before the failure did stays
SyncWritePartition ==
    /\ sy_pc = "write"
    /\ \E grp \in Unwritten :
         LET dir == PartitionDir(grp)
             file_path == Append(dir, PartFile)
         IN  /\ sy_writes' = Append(sy_writes, grp)
             /\ \/ /\ sy_dirs' = create_dir_all(sy_dirs, dir)
                   /\ sy_files' = WriteFile(sy_files, file_path, take(sy_batch, sy_groups[grp]))
                   /\ UNCHANGED sy_pc
                \/ /\ sy_pc' = "err_write"
                   /\ UNCHANGED <<sy_dirs, sy_files>>
                \/ /\ sy_pc' = "err_write"
                   /\ sy_dirs' = create_dir_all(sy_dirs, dir)
                   /\ UNCHANGED sy_files
                \/ /\ sy_pc' = "err_write"
                   /\ sy_dirs' = create_dir_all(sy_dirs, dir)
                   /\ sy_files' = WriteFile(sy_files, file_path, Truncated)
    /\ UNCHANGED <<sy_args, sy_table, sy_fetched, sy_batch, sy_groups>>
    /\ UNCHANGED <<parseVars, regVars, startVars, cacheVars, storeVars, servVars, statsVars, rdsVars>>

\* the loop is through: Ok(())
SyncDone ==
    /\ sy_pc = "write"
    /\ Unwritten = {}
    /\ sy_pc' = "done"
    /\ UNCHANGED <<sy_args, sy_table, sy_fetched, sy_batch, sy_groups, sy_dirs, sy_files, sy_writes>>
    /\ UNCHANGED <<parseVars, regVars, startVars, cacheVars, storeVars, servVars, statsVars, rdsVars>>

SyncNext ==
    \/ SyncConnect
    \/ SyncValidate
    \/ SyncInferSchema
    \/ SyncTable
    \/ SyncWriteSingle
    \/ SyncGroup
    \/ SyncWritePartition
    \/ SyncDone

SpecSync == SyncInit /\ [][SyncNext]_vars

(***************************************************************************)
(* The parsers as a state machine: an input is drawn, one parser runs.     *)
(***************************************************************************)
ParseInit ==
    /\ \/ /\ raw \in StringsUpTo(MaxLen)
          /\ form = NoForm
       \/ \E n \in SpecNames, r \in PlainRoots \cup SchemeRoots, cs \in SeqsUpTo(ColNames, MaxCols) :
            /\ raw = Compose(n, r, cs)
            /\ form = [wf |-> TRUE, name |-> n, root |-> r, cols |-> cs]
    /\ parsed = NotParsed
    /\ variant = "none"
    /\ RegIdle
    /\ StartIdle
    /\ CacheIdle
    /\ SyncIdle
    /\ StoreIdle
    /\ ServIdle
    /\ StatsIdle
    /\ RdsIdle

\* TableSpec::parse(raw) of tables.rs
Parse ==
    /\ variant = "none"
    /\ parsed' = parse(raw)
    /\ variant' = "tables"
    /\ UNCHANGED <<raw, form>>
    /\ UNCHANGED <<regVars, startVars, cacheVars, syncVars, storeVars, servVars, statsVars, rdsVars>>

\* TableSpec::parse(raw) of table_spec.rs
ParseTableSpec ==
    /\ variant = "none"
    /\ parsed' = table_spec_parse(raw)
    /\ variant' = "table_spec"
    /\ UNCHANGED <<raw, form>>
    /\ UNCHANGED <<regVars, startVars, cacheVars, syncVars, storeVars, servVars, statsVars, rdsVars>>

ParseNext == Parse \/ ParseTableSpec

SpecParse == ParseInit /\ [][ParseNext]_vars

(***************************************************************************)
(* The metrics decorator as a state machine: a client calls operations of  *)
(* MetricsObjectStore, the wrapped store answers Ok or Err.                *)
(***************************************************************************)
StoreInit ==
    /\ ParseIdle
    /\ RegIdle
    /\ StartIdle
    /\ CacheIdle
    /\ SyncIdle
    /\ ms_counters = [op \in Overridden |-> 0]
    /\ ms_inner = <<>>
    /\ ms_direct = <<>>
    /\ ms_calls = <<>>
    /\ ServIdle
    /\ StatsIdle
    /\ RdsIdle

\* the body every implemented method has: COUNTER.increment(1), then
\* self.inner.op(args), whose result is returned as it is
Forward(op, argset) ==
    /\ Len(ms_calls) < MaxCalls
    /\ \E args \in argset, result \in Outcomes :
         /\ ms_counters' = increment(ms_counters, op)
         /\ ms_inner' = Append(ms_inner, StoreCall(op, args, result))
         /\ ms_calls' = Append(ms_calls, StoreCall(op, args, result))
         /\ ms_direct' = Append(ms_direct, StoreCall(op, args, result))
    /\ UNCHANGED <<parseVars, regVars, startVars, cacheVars, syncVars, servVars, statsVars, rdsVars>>

put_opts == Forward("put_opts", OneLocation)

put_multipart_opts == Forward("put_multipart_opts", OneLocation)

get_opts == Forward("get_opts", OneLocation)

delete == Forward("delete", OneLocation)

list == Forward("list", OneLocation)

list_with_delimiter == Forward("list_with_delimiter", OneLocation)

copy == Forward("copy", FromTo)

copy_if_not_exists == Forward("copy_if_not_exists", FromTo)

get_range == Forward("get_range", LocationRange)

\* rename is not among the implemented methods, so a call runs the provided
\* method of the trait on the decorator: self.copy(from, to).await? and then
\* self.delete(from).await
rename ==
    /\ Len(ms_calls) < MaxCalls
    /\ \E args \in FromTo, copied \in Outcomes, deleted \in Outcomes :
         LET counted == increment(ms_counters, "copy")
             seen == Append(ms_inner, StoreCall("copy", args, copied))
             result == IF copied = "Err" THEN "Err" ELSE deleted
         IN  /\ IF copied = "Err"
                THEN /\ ms_counters' = counted
                     /\ ms_inner' = seen
                ELSE /\ ms_counters' = increment(counted, "delete")
                     /\ ms_inner' = Append(seen, StoreCall("delete", <<args[1]>>, deleted))
             /\ ms_calls' = Append(ms_calls, StoreCall("rename", args, result))
             /\ ms_direct' = Append(ms_direct, StoreCall("rename", args, result))
    /\ UNCHANGED <<parseVars, regVars, startVars, cacheVars, syncVars, servVars, statsVars, rdsVars>>

\* get_ranges is not among the implemented methods either: the provided
\* method fetches each range with self.get_range(location, range)
get_ranges ==
    /\ Len(ms_calls) < MaxCalls
    /\ \E args \in LocationRanges, first \in Outcomes, second \in Outcomes :
         LET result == IF first = "Ok" /\ second = "Ok" THEN "Ok" ELSE "Err"
         IN  /\ ms_counters' = increment(increment(ms_counters, "get_range"), "get_range")
             /\ ms_inner' = ms_inner \o <<StoreCall("get_range", <<args[1], args[2]>>, first),
                                          StoreCall("get_range", <<args[1], args[3]>>, second)>>
             /\ ms_calls' = Append(ms_calls, StoreCall("get_ranges", args, result))
             /\ ms_direct' = Append(ms_direct, StoreCall("get_ranges", args, result))
    /\ UNCHANGED <<parseVars, regVars, startVars, cacheVars, syncVars, servVars, statsVars, rdsVars>>

StoreNext ==
    \/ put_opts
    \/ put_multipart_opts
    \/ get_opts
    \/ delete
    \/ list
    \/ list_with_delimiter
    \/ copy
    \/ copy_if_not_exists
    \/ get_range
    \/ rename
    \/ get_ranges

SpecStore == StoreInit /\ [][StoreNext]_vars

(***************************************************************************)
(* The start-up of plano-serv as a state machine.                          *)
(***************************************************************************)
ServInit ==
    /\ ParseIdle
    /\ RegIdle
    /\ StartIdle
    /\ CacheIdle
    /\ SyncIdle
    /\ StoreIdle
    \* required=true: at least one --table-spec
    /\ sv_specs \in UNION {[1..k -> RawSpecs] : k \in 1..MaxArgs}
    \* main hands over the literal; zero is the size the expect is there for
    /\ sv_size \in {0, CacheSize}
    /\ sv_pc = "start"
    /\ sv_i = 1
    /\ sv_ctx = [n \in ServNames |-> NoTable]
    /\ sv_cap = 0
    /\ sv_canon = <<>>
    /\ sv_printed = <<>>
    /\ StatsIdle
    /\ RdsIdle

\* let cache = initialize_cache(..)
ServInitializeCache ==
    /\ sv_pc = "start"
    /\ LET built == initialize_cache(sv_size)
       IN  /\ sv_cap' = built.cap
           /\ sv_pc' = IF built.ok THEN "register" ELSE "panic"
    /\ UNCHANGED <<sv_specs, sv_size, sv_i, sv_ctx, sv_canon, sv_printed>>
    /\ UNCHANGED <<parseVars, regVars, startVars, cacheVars, syncVars, storeVars, statsVars, rdsVars>>

\* one round of the loop of register_tables: parse, root_prefix, store_url,
\* register_table, println!; every ? returns the error to main
ServRegisterTable ==
    /\ sv_pc = "register"
    /\ sv_i <= Len(sv_specs)
    /\ LET spec == table_spec_parse(sv_specs[sv_i])
           is_s3 == starts_with(spec.root, S3Scheme)
           canon == canonicalize(spec.root)
           root_prefix == IF is_s3 THEN spec.root ELSE canon.path \o <<"/">>
           store_url == IF is_s3 THEN spec.root ELSE FileScheme \o root_prefix
           table == ListingTable(ListingTableUrl_parse(spec.root), <<>>, spec.partitions)
       IN  IF ~spec.ok
           THEN /\ sv_pc' = "exit_err"
                /\ UNCHANGED <<sv_i, sv_ctx, sv_canon, sv_printed>>
           ELSE /\ sv_canon' = IF is_s3 THEN sv_canon ELSE Append(sv_canon, <<sv_i, spec.root>>)
                /\ IF ~is_s3 /\ ~canon.ok
                   THEN /\ sv_pc' = "exit_err"
                        /\ UNCHANGED <<sv_i, sv_ctx, sv_printed>>
                   ELSE \E inferred \in BOOLEAN :
                          LET reg == ctx_register_table(sv_ctx, spec.name, table)
                          IN  IF inferred /\ reg.ok
                              THEN /\ sv_ctx' = reg.catalog
                                   /\ sv_printed' = Append(sv_printed, <<spec.name, store_url>>)
                                   /\ sv_i' = sv_i + 1
                                   /\ UNCHANGED sv_pc
                              ELSE /\ sv_pc' = "exit_err"
                                   /\ UNCHANGED <<sv_i, sv_ctx, sv_printed>>
    /\ UNCHANGED <<sv_specs, sv_size, sv_cap>>
    /\ UNCHANGED <<parseVars, regVars, startVars, cacheVars, syncVars, storeVars, statsVars, rdsVars>>

\* register_tables returns Ok(()), configure_routes builds the routes
ServConfigureRoutes ==
    /\ sv_pc = "register"
    /\ sv_i > Len(sv_specs)
    /\ sv_pc' = "bind"
    /\ UNCHANGED <<sv_specs, sv_size, sv_i, sv_ctx, sv_cap, sv_canon, sv_printed>>
    /\ UNCHANGED <<parseVars, regVars, startVars, cacheVars, syncVars, storeVars, statsVars, rdsVars>>

\* start_server: bind.parse()? and then warp::serve(routes).run(addr)
ServStartServer ==
    /\ sv_pc = "bind"
    /\ \E parsed_addr \in BOOLEAN : sv_pc' = IF parsed_addr THEN "serving" ELSE "exit_err"
    /\ UNCHANGED <<sv_specs, sv_size, sv_i, sv_ctx, sv_cap, sv_canon, sv_printed>>
    /\ UNCHANGED <<parseVars, regVars, startVars, cacheVars, syncVars, storeVars, statsVars, rdsVars>>

ServNext ==
    \/ ServInitializeCache
    \/ ServRegisterTable
    \/ ServConfigureRoutes
    \/ ServStartServer

SpecServ == ServInit /\ [][ServNext]_vars

(***************************************************************************)
(* The cache statistics as a state machine: the cache calls the methods of *)
(* AtomicIntCacheStats one after the other.                                *)
(***************************************************************************)
StatsInit ==
    /\ ParseIdle
    /\ RegIdle
    /\ StartIdle
    /\ CacheIdle
    /\ SyncIdle
    /\ StoreIdle
    /\ ServIdle
    \* AtomicIntCacheStats::new()
    /\ cs_usage = 0
    /\ cs_usage_gauge = 0
    /\ cs_max = 0
    /\ cs_capacity_gauge = 0
    /\ cs_reads = 0
    /\ cs_misses = 0
    /\ cs_last = NoStatOp
    /\ RdsIdle

\* the record of the operation a step makes
StatOp(op, val) == [op |-> op, val |-> val, before |-> cs_usage, n |-> cs_last.n + 1]

inc_total_reads ==
    /\ cs_last.n < MaxStatOps
    /\ cs_reads' = cs_reads + 1
    /\ cs_last' = StatOp("inc_total_reads", 0)
    /\ UNCHANGED <<cs_usage, cs_usage_gauge, cs_max, cs_capacity_gauge, cs_misses>>
    /\ UNCHANGED <<parseVars, regVars, startVars, cacheVars, syncVars, storeVars, servVars, rdsVars>>

inc_total_misses ==
    /\ cs_last.n < MaxStatOps
    /\ cs_misses' = cs_misses + 1
    /\ cs_last' = StatOp("inc_total_misses", 0)
    /\ UNCHANGED <<cs_usage, cs_usage_gauge, cs_max, cs_capacity_gauge, cs_reads>>
    /\ UNCHANGED <<parseVars, regVars, startVars, cacheVars, syncVars, storeVars, servVars, rdsVars>>

set_max_capacity ==
    /\ cs_last.n < MaxStatOps
    /\ \E val \in 0..MaxVal :
         /\ cs_capacity_gauge' = val
         /\ cs_max' = val
         /\ cs_last' = StatOp("set_max_capacity", val)
    /\ UNCHANGED <<cs_usage, cs_usage_gauge, cs_reads, cs_misses>>
    /\ UNCHANGED <<parseVars, regVars, startVars, cacheVars, syncVars, storeVars, servVars, rdsVars>>

set_usage ==
    /\ cs_last.n < MaxStatOps
    /\ \E val \in 0..MaxVal :
         /\ cs_usage_gauge' = val
         /\ cs_usage' = val
         /\ cs_last' = StatOp("set_usage", val)
    /\ UNCHANGED <<cs_max, cs_capacity_gauge, cs_reads, cs_misses>>
    /\ UNCHANGED <<parseVars, regVars, startVars, cacheVars, syncVars, storeVars, servVars, rdsVars>>

inc_usage ==
    /\ cs_last.n < MaxStatOps
    /\ \E val \in 0..MaxVal :
         /\ cs_usage + val <= MaxVal
         /\ cs_usage_gauge' = cs_usage_gauge + val
         /\ cs_usage' = cs_usage + val
         /\ cs_last' = StatOp("inc_usage", val)
    /\ UNCHANGED <<cs_max, cs_capacity_gauge, cs_reads, cs_misses>>
    /\ UNCHANGED <<parseVars, regVars, startVars, cacheVars, syncVars, storeVars, servVars, rdsVars>>

\* USAGE.decrement(val) first, whatever the usage is; then fetch_update,
\* whose closure gives None when current < val
sub_usage ==
    /\ cs_last.n < MaxStatOps
    /\ \E val \in 0..MaxVal :
         /\ cs_usage_gauge' = cs_usage_gauge - val
         /\ cs_usage' = IF cs_usage < val THEN cs_usage ELSE cs_usage - val
         /\ cs_last' = StatOp("sub_usage", val)
    /\ UNCHANGED <<cs_max, cs_capacity_gauge, cs_reads, cs_misses>>
    /\ UNCHANGED <<parseVars, regVars, startVars, cacheVars, syncVars, storeVars, servVars, rdsVars>>

StatsNext ==
    \/ inc_total_reads
    \/ inc_total_misses
    \/ set_max_capacity
    \/ set_usage
    \/ inc_usage
    \/ sub_usage

SpecStats == StatsInit /\ [][StatsNext]_vars

(***************************************************************************)
(* The source side of the export as a state machine: plano-sync infers the *)
(* schema of a table and then fetches its rows.                            *)
(***************************************************************************)
RdsInit ==
    /\ ParseIdle
    /\ RegIdle
    /\ StartIdle
    /\ CacheIdle
    /\ SyncIdle
    /\ StoreIdle
    /\ ServIdle
    /\ StatsIdle
    /\ rd_columns \in ColumnSets
    /\ rd_nrows \in 0..MaxSourceRows
    /\ rd_pc = "infer"
    /\ rd_schema = <<>>
    /\ rd_batch = NoBatch
    /\ rd_err = <<>>

\* let schema_ref = infer_arrow_schema(&args.table, &pool).await?
InferArrowSchema ==
    /\ rd_pc = "infer"
    /\ \/ LET inferred == infer_arrow_schema(rd_columns)
          IN  /\ rd_schema' = inferred.schema
              /\ rd_err' = inferred.err
              /\ rd_pc' = IF inferred.ok THEN "sync" ELSE "err_infer"
       \/ \* fetch_all(pool).await? fails
          /\ rd_err' = <<"sqlx">>
          /\ rd_pc' = "err_infer"
          /\ UNCHANGED rd_schema
    /\ UNCHANGED <<rd_columns, rd_nrows, rd_batch>>
    /\ UNCHANGED <<parseVars, regVars, startVars, cacheVars, syncVars, storeVars, servVars, statsVars>>

\* let batch = sync_table(&args.table, &schema_ref, &pool).await?
RdsSyncTable ==
    /\ rd_pc = "sync"
    /\ \/ LET synced == sync_table(rd_schema, rd_nrows)
          IN  /\ rd_batch' = synced.batch
              /\ rd_err' = synced.err
              /\ rd_pc' = IF synced.ok THEN "done" ELSE "err_sync"
       \/ \* fetch_all(pool).await? or a try_get(name)? fails
          /\ rd_err' = <<"sqlx">>
          /\ rd_pc' = "err_sync"
          /\ UNCHANGED rd_batch
    /\ UNCHANGED <<rd_columns, rd_nrows, rd_schema>>
    /\ UNCHANGED <<parseVars, regVars, startVars, cacheVars, syncVars, storeVars, servVars, statsVars>>

RdsNext ==
    \/ InferArrowSchema
    \/ RdsSyncTable

SpecRds == RdsInit /\ [][RdsNext]_vars

(***************************************************************************)
(* Claims about TableSpec::parse, checked under SpecParse.                 *)
(***************************************************************************)
\* s is name=root:col1,...,coln with its '=' at i and its separating ':' at j:
\* no '=' in the name, no ':' in the root, and a column list after j whose
\* columns are non-empty and hold no ',', ':' or '/'
ValidAt(s, i, j) ==
    /\ 1 <= i /\ i < j /\ j < Len(s)
    /\ s[i] = "=" /\ \A k \in 1..(i - 1) : s[k] # "="
    /\ s[j] = ":" /\ \A k \in (i + 1)..(j - 1) : s[k] # ":"
    /\ \A k \in (j + 1)..Len(s) : s[k] \notin {":", "/"}
    /\ s[j + 1] # "," /\ s[Len(s)] # ","
    /\ \A k \in (j + 1)..(Len(s) - 1) : ~(s[k] = "," /\ s[k + 1] = ",")

\* C1: for every table-spec string name=root:col1,...,coln (name without '=',
\* root without ':', each column non-empty and without ',', ':' or '/'),
\* TableSpec::parse of tables.rs returns Ok with exactly that name, that root
\* and the columns col1..coln in input order.
C1_ParseValidSpec ==
    variant = "tables" =>
        /\ (form.wf /\ form.root \in PlainRoots /\ form.cols # <<>>) =>
               parsed = OkSpec(form.name, form.root, form.cols)
        /\ \A i \in 1..Len(raw), j \in 1..Len(raw) :
               ValidAt(raw, i, j) =>
                   /\ parsed.ok
                   /\ parsed.name = Before(raw, i)
                   /\ parsed.root = SubSeq(raw, i + 1, j - 1)
                   /\ Join(parsed.partitions, ",") = After(raw, j)
                   /\ \A k \in 1..Len(parsed.partitions) :
                          ~Contains(parsed.partitions[k], ",")

\* C1 witness: a composed spec with a path root and three columns was parsed
\* by tables.rs into its three columns
C1_Witness ==
    /\ variant = "tables"
    /\ form.wf /\ form.root = <<"/", "a", "/", "b">>
    /\ form.cols = << <<"a">>, <<"a", "=">>, <<"b">> >>
    /\ parsed.ok /\ Len(parsed.partitions) = 3

\* C2: for every input without '=' (the empty string included) TableSpec::parse
\* returns an error and no TableSpec, and the message is "Invalid table-spec "
\* followed by the input verbatim between backquotes.
C2_ParseErrorCarriesInput ==
    (variant # "none" /\ ~Contains(raw, "=")) =>
        /\ ~parsed.ok
        /\ parsed.name = <<>> /\ parsed.root = <<>> /\ parsed.partitions = <<>>
        /\ Len(parsed.err) = Len(raw) + 3
        /\ parsed.err[1] = "Invalid table-spec "
        /\ parsed.err[2] = BackQuote
        /\ SubSeq(parsed.err, 3, Len(raw) + 2) = raw
        /\ parsed.err[Len(raw) + 3] = BackQuote

\* C2 witness: a non-empty input without '=' was rejected by tables.rs
C2_Witness ==
    /\ variant = "tables"
    /\ raw = <<"a", ":", "b", ",", "a">>
    /\ ~parsed.ok

\* C3: TableSpec::parse splits at the first '='; the remainder is split at its
\* last ':' into root and partition list if and only if the text after that
\* ':' contains no '/'; otherwise (or without any ':') the whole remainder is
\* the root and partitions is empty.
C3_SplitIffNoSlashInTail ==
    (variant = "tables" /\ Contains(raw, "=")) =>
        LET rest == After(raw, find(raw, "="))
            idx  == rfind(rest, ":")
        IN  /\ parsed.ok
            /\ parsed.name = Before(raw, find(raw, "="))
            /\ IF idx # 0 /\ ~Contains(After(rest, idx), "/")
               THEN /\ parsed.root = Before(rest, idx)
                    /\ parsed.partitions = PartitionList(After(rest, idx))
               ELSE /\ parsed.root = rest
                    /\ parsed.partitions = <<>>

\* C4: when the root is a scheme URI (scheme://...), the scheme's colon is
\* never taken as the partition separator: name=scheme://b/a parses to that
\* root with no partitions, name=scheme://b/a:c1,c2 to that root with [c1,c2],
\* and no parse ends the root at a ':' that is followed by '/'.
C4_SchemeColonNotSeparator ==
    variant = "tables" =>
        /\ (form.wf /\ form.root \in SchemeRoots) =>
               parsed = OkSpec(form.name, form.root, form.cols)
        /\ Contains(raw, "=") =>
               LET rest == After(raw, find(raw, "="))
               IN  \A i \in 1..(Len(rest) - 1) :
                       (rest[i] = ":" /\ rest[i + 1] = "/") =>
                           ~(parsed.root = Before(rest, i) /\ parsed.root # rest)

\* C4 witness: a scheme URI root with two columns was parsed by tables.rs,
\* the root kept whole
C4_Witness ==
    /\ variant = "tables"
    /\ form.wf /\ form.root = <<"a", ":", "/", "/", "b", "/", "a">>
    /\ Len(form.cols) = 2
    /\ parsed.ok /\ parsed.root = form.root /\ parsed.partitions = form.cols

\* the entries of a list are pairwise distinct
Distinct(ps) == \A i \in 1..Len(ps), j \in 1..Len(ps) : i # j => ps[i] # ps[j]

\* C5: every TableSpec that TableSpec::parse returns as Ok has a non-empty
\* name, a non-empty root, and partitions that are pairwise distinct and none
\* of them empty.
C5_ParsedSpecInvariant ==
    (variant = "tables" /\ parsed.ok) =>
        /\ parsed.name # <<>>
        /\ parsed.root # <<>>
        /\ Distinct(parsed.partitions)
        /\ \A k \in 1..Len(parsed.partitions) : parsed.partitions[k] # <<>>


(***************************************************************************)
(* Claims about table registration, checked under SpecRegister.            *)
(***************************************************************************)
\* the names of a list of partition columns or of fields
NameSet(fs) == {fs[i].name : i \in 1..Len(fs)}

\* the position of the field named n in schema s (the names of s are distinct)
PosOf(s, n) == CHOOSE i \in 1..Len(s) : s[i].name = n

\* C6: the schema register_table hands to the engine is the inferred schema
\* with exactly the fields named in spec.partitions removed and the other
\* fields kept, each once, in their original relative order; so no field of a
\* registered schema has the name of a partition column of its table.
C6_CleanSchema ==
    /\ \A k \in 1..Len(calls) :
         calls[k].table.kind = "listing" =>
           LET fsch  == calls[k].file_schema
               clean == calls[k].table.schema
               parts == {calls[k].spec.partitions[i] : i \in 1..Len(calls[k].spec.partitions)}
           IN  /\ {clean[i] : i \in 1..Len(clean)}
                    = {fsch[i] : i \in 1..Len(fsch)} \ {f \in {fsch[i] : i \in 1..Len(fsch)} : f.name \in parts}
               /\ Cardinality(NameSet(clean)) = Len(clean)
               /\ \A i \in 1..Len(clean), j \in 1..Len(clean) :
                      i < j => PosOf(fsch, clean[i].name) < PosOf(fsch, clean[j].name)
               /\ NameSet(clean) \cap parts = {}
    /\ \A n \in TableNames :
         NameSet(catalog[n].schema) \cap NameSet(catalog[n].partitions) = {}

\* C6 witness: a file schema year, x, month was registered with partition
\* columns year, month, and the engine got the schema x
C6_Witness ==
    \E k \in 1..Len(calls) :
        /\ calls[k].ok
        /\ calls[k].spec.partitions = <<"year", "month">>
        /\ calls[k].file_schema = <<Field("year"), Field("x"), Field("month")>>
        /\ catalog[calls[k].spec.name].schema = <<Field("x")>>
        /\ catalog[calls[k].spec.name].partitions
             = <<[name |-> "year", dtype |-> "Utf8"], [name |-> "month", dtype |-> "Utf8"]>>

\* C7: registering a table under a name that is already registered succeeds
\* and replaces the prior registration: every registration that reaches the
\* engine succeeds, and the catalog binds each name to the table of the most
\* recent registration for that name.
C7_ReRegisterReplaces ==
    \A k \in 1..Len(calls) :
        calls[k].table.kind = "listing" =>
            /\ calls[k].ok
            /\ (\A m \in (k + 1)..Len(calls) : calls[m].spec.name # calls[k].spec.name)
                   => catalog[calls[k].spec.name] = calls[k].table

\* C9 (as claimed): when the registration of one table of the list fails, only
\* that table is left unregistered: the tables listed before it stay
\* registered and the tables listed after it (with an inferable schema and a
\* name of their own) are still registered.
C9_OnlyFailedTableUnregistered ==
    reg_result = "err" =>
        /\ \A k \in 1..(reg_i - 1) : catalog[table_specs[k].name] = calls[k].table
        /\ \A k \in (reg_i + 1)..Len(table_specs) :
               (/\ files[table_specs[k].root].ok
                /\ \A m \in 1..Len(table_specs) :
                       m # k => table_specs[m].name # table_specs[k].name)
                   => catalog[table_specs[k].name].kind = "listing"

\* C9 (amended): when the registration of one table of the list fails,
\* register_tables returns the error at once: the tables listed before it stay
\* registered, the failed registration changes nothing, and no table listed
\* after it is attempted, so the catalog holds the tables listed before it and
\* nothing else.
C9_FailureStopsTheLoop ==
    reg_result = "err" =>
        /\ Len(calls) = reg_i
        /\ ~calls[reg_i].ok
        /\ \A k \in 1..(reg_i - 1) :
               /\ calls[k].ok
               /\ catalog[table_specs[k].name] = calls[k].table
        /\ \A n \in TableNames :
               catalog[n].kind # "none" =>
                   \E k \in 1..(reg_i - 1) : table_specs[k].name = n

\* C9 witness: the second of three specs failed schema inference; the first
\* is registered, the third, whose name is free in the catalog and whose
\* schema is inferable, is not
C9_Witness ==
    /\ reg_result = "err"
    /\ Len(table_specs) = 3
    /\ reg_i = 2
    /\ ~files[table_specs[2].root].ok
    /\ catalog[table_specs[1].name].kind = "listing"
    /\ files[table_specs[3].root].ok
    /\ table_specs[3].name # table_specs[1].name
    /\ catalog[table_specs[3].name].kind = "none"


(***************************************************************************)
(* Claims about start-up table loading, checked under SpecStartup.         *)
(***************************************************************************)
\* the k-th --table argument matches at least one parquet file
HasFiles(k) == globbed[tables[k].pattern].files # <<>>

\* what the loop of queryd leaves in table_paths under name n: the files of
\* the last argument named n that matches any
LastWithFiles(n) ==
    LET ks == {k \in 1..Len(tables) : tables[k].name = n /\ HasFiles(k)}
    IN  IF ks = {} THEN NoFiles
        ELSE LET k == CHOOSE k \in ks : \A m \in ks : m <= k
             IN  FilesOf(tables[k].pattern, globbed[tables[k].pattern].files)

\* the names of the arguments that match no file, in argument order
EmptyNames ==
    LET idx == SelectSeq([k \in 1..Len(tables) |-> k], LAMBDA k : ~HasFiles(k))
    IN  [i \in 1..Len(idx) |-> tables[idx[i]].name]

Min(a, b) == IF a <= b THEN a ELSE b

\* C10: the query cache is a proper LRU: after any sequence of gets and puts
\* on a cache of capacity N it holds exactly the N most recently touched keys
\* (touched: put, or hit by a get), most recent first; so a put of a new key
\* into a full cache removes exactly the key whose last touch is the oldest,
\* and a get that hits makes its key the most recently used.
C10_ProperLRU ==
    /\ CacheKeys(cache) = SubSeq(recent, 1, Min(cap, Len(recent)))
    /\ Len(cache) <= cap

\* C10 witness: capacity 2; Q1, Q2 and Q3 were put in that order,
\* which evicted Q1, and a later get of Q1 missed
C10_Witness ==
    /\ cap = 2
    /\ recent = <<"Q3", "Q2", "Q1">>
    /\ CacheKeys(cache) = <<"Q3", "Q2">>
    /\ \E r \in Reqs : rsql[r] = "Q1" /\ rpc[r] = "exec"

(***************************************************************************)
(* Claims about handle_query and handle_tables, checked under SpecCache.   *)
(***************************************************************************)
\* C11: the cache lock is held only for one cache get or one cache put,
\* never while the engine runs a query, and the cache holds at most one
\* entry for a query text, also after two requests with the same text both
\* missed, both executed and both put
C11_LockOnlyAroundGetPut ==
    /\ \A r \in Reqs : lock = r => rpc[r] \in {"get", "putting"}
    /\ \A r \in Reqs : rpc[r] = "exec" => lock # r
    /\ \A i, j \in 1..Len(cache) : cache[i].key = cache[j].key => i = j

\* the part of C11 that both handlers keep: the lock is free of a request
\* whose query is with the engine, and no query text has two entries
C11_NoLockWhileEngineRuns ==
    /\ \A r \in Reqs : rpc[r] \in {"exec", "put"} => lock # r
    /\ \A i, j \in 1..Len(cache) : cache[i].key = cache[j].key => i = j

\* two requests with the same text both missed, executed and put, and the
\* cache holds the text once
C11_BothMissedBothPut ==
    /\ rsql["a"] = "Q1" /\ rsql["b"] = "Q1"
    /\ ops["a"] = <<"get", "exec", "put">>
    /\ ops["b"] = <<"get", "exec", "put">>
    /\ Cardinality({i \in 1..Len(cache) : cache[i].key = "Q1"}) = 1

\* the entries of a cache, without their order
Entries(c) == {c[i] : i \in 1..Len(c)}

\* C12: a request whose query fails in the engine ends with an error
\* response after a probe that missed and no put, with the cache's keys,
\* values and order left as they were; and an entry is only ever created or
\* changed by the put of a request that missed and executed successfully
C12_FailedQueryLeavesCache ==
    [][/\ \A r \in Reqs :
            (resp'[r] # resp[r] /\ resp'[r].status = 500) =>
                /\ cache' = cache
                /\ recent' = recent
                /\ ops'[r] = <<"get", "exec">>
       /\ \A r \in Reqs :
            (ops'[r] = <<"get">> /\ ops[r] = <<>> /\ rpc'[r] = "exec") =>
                cache' = cache /\ recent' = recent
       /\ Entries(cache') # Entries(cache) =>
            \E r \in Reqs :
                /\ ops[r] = <<"get", "exec">>
                /\ ops'[r] = <<"get", "exec", "put">>
                /\ rres[r] \in Results
                /\ cache'[1] = [key |-> rsql[r], val |-> rres[r]]
      ]_vars

\* C12 witness: a query that is not cached failed in the engine while the
\* cache held another query
C12_Witness ==
    \E r \in Reqs :
        /\ resp[r].status = 500
        /\ ops[r] = <<"get", "exec">>
        /\ cache # <<>>
        /\ CacheFind(cache, rsql[r]) = 0

\* C13: a request with an sql field probes the cache first; a cached text
\* is answered from the cached batches with the engine left alone and the
\* cached keys and values unchanged; the engine runs only after a miss, and
\* the answer to a successful miss comes with the put of (text, result)
C13_CacheBeforeEngine ==
    [][\A r \in Reqs :
        /\ ops'[r] \in {<<>>, <<"get">>, <<"get", "exec">>, <<"get", "exec", "put">>}
        /\ (ops'[r] = <<"get">> /\ ops[r] = <<>>) =>
              IF CacheFind(cache, rsql[r]) # 0
              THEN /\ rpc'[r] \in {"idle", "hit"}
                   /\ Entries(cache') = Entries(cache)
              ELSE /\ rpc'[r] = "exec"
                   /\ cache' = cache
        /\ (resp'[r] # resp[r] /\ resp'[r].from = "cache") =>
              /\ resp'[r].status = 200
              /\ ops'[r] = <<"get">>
              /\ CacheFind(cache, rsql[r]) # 0
              /\ resp'[r].body[2] = cache[CacheFind(cache, rsql[r])].val
              /\ Entries(cache') = Entries(cache)
        /\ (resp'[r] # resp[r] /\ resp'[r].from = "engine" /\ resp'[r].status = 200) =>
              /\ ops'[r] = <<"get", "exec", "put">>
              /\ cache'[1] = [key |-> rsql[r], val |-> rres[r]]
              /\ resp'[r].body[2] = rres[r]
      ]_vars

\* C13 witness: a request was answered from the cache, with one probe and
\* no run of the engine
C13_Witness ==
    \E r \in Reqs :
        /\ resp[r].status = 200
        /\ resp[r].from = "cache"
        /\ resp[r].body[2] = "r1"
        /\ ops[r] = <<"get">>
        /\ rpc[r] = "idle"

\* C14: a request whose form has no sql field is answered 400 Bad Request
\* and neither locks, reads or writes the cache nor runs the engine
C14_MissingSqlIs400 ==
    [][\A r \in Reqs :
        /\ (rsql'[r] = NoSql /\ rpc'[r] # "tables" /\ resp'[r].from # "tables"
               /\ resp'[r] # NoResp) =>
              /\ resp'[r].status = 400
              /\ ops'[r] = <<>>
              /\ rpc'[r] = "idle"
        /\ (resp'[r] # resp[r] /\ resp'[r].status = 400) =>
              /\ rsql'[r] = NoSql
              /\ cache' = cache
              /\ recent' = recent
              /\ lock' = lock
              /\ ops'[r] = <<>>
      ]_vars

\* C14 witness: a request without sql got its 400 while the cache held an
\* entry and the other request was waiting for the engine
C14_Witness ==
    \E r, o \in Reqs :
        /\ resp[r].status = 400
        /\ rsql[r] = NoSql
        /\ rpc[o] = "exec"
        /\ cache # <<>>

\* the rule of the Accept header: application/json gives JSON, text/csv
\* gives CSV, any other value and no header give the text table
AcceptRule(accept) ==
    IF accept = "application/json" THEN "Json"
    ELSE IF accept = "text/csv" THEN "Csv"
    ELSE "Text"

\* the Content-Type that names a format
ContentTypeOf(format) ==
    IF format = "Json" THEN "application/json"
    ELSE IF format = "Csv" THEN "text/csv"
    ELSE "text/plain"

\* C15: every successful POST /query response, from the cache or from the
\* engine, has the body format and the Content-Type that the Accept header
\* of the request alone decides
C15_AcceptDecidesFormat ==
    [][\A r \in Reqs :
        (resp'[r] # resp[r] /\ resp'[r].status = 200 /\ resp'[r].from \in {"cache", "engine"}) =>
            /\ resp'[r].body[1] = AcceptRule(racc[r])
            /\ resp'[r].ctype = ContentTypeOf(AcceptRule(racc[r]))
      ]_vars

\* C16: GET /tables answers in the format POST /query would choose for the
\* same Accept header
C16_TablesSameRuleAsQuery ==
    [][\A r \in Reqs :
        (resp'[r] # resp[r] /\ resp'[r].from = "tables") =>
            /\ resp'[r].body[1] = determine_output_format(racc[r])
            /\ resp'[r].body[1] = AcceptRule(racc[r])
      ]_vars

(***************************************************************************)
(* Claims about the export run of plano-sync, checked under SpecSync.      *)
(***************************************************************************)
\* a reserved partition key is configured and no timestamp column is
ReservedWithoutTimestamp ==
    /\ sy_args.timestamp_col = None
    /\ \E i \in 1..Len(sy_args.partition_by) : sy_args.partition_by[i] \in reserved

\* C17: with a partition column among year, month, day, hour and no
\* timestamp column the run never gets past the validation: it ends there
\* with exit status 1 (or before it, when there is no connection), with no
\* schema and no row fetched and no directory or file created
C17_ReservedKeyFailsFirst ==
    ReservedWithoutTimestamp =>
        /\ sy_pc \in {"start", "validate", "exit_1", "panic_env", "err_connect"}
        /\ sy_fetched = {}
        /\ sy_batch = <<>>
        /\ sy_dirs = {}
        /\ sy_files = NoFile

\* C17 witness: partition_by = [year] without --timestamp-col over a table
\* with rows ended with exit status 1
C17_Witness ==
    /\ sy_args = [partition_by |-> <<Year>>, timestamp_col |-> None]
    /\ sy_table # <<>>
    /\ sy_pc = "exit_1"

\* group_rows_by_partition has returned its groups
Grouped == sy_args.partition_by # <<>> /\ sy_pc \in {"write", "done", "err_write"}

\* the places (key, position) of the groups
Places == UNION {{<<k, p>> : p \in 1..Len(sy_groups[k])} : k \in DOMAIN sy_groups}

\* C18: the row groups returned by group_rows_by_partition hold every row
\* index of the batch exactly once, in exactly one group, and no other index
C18_GroupsPartitionTheRows ==
    Grouped =>
        /\ \A kp \in Places : sy_groups[kp[1]][kp[2]] \in 0..(Len(sy_batch) - 1)
        /\ \A row \in 0..(Len(sy_batch) - 1) :
              Cardinality({kp \in Places : sy_groups[kp[1]][kp[2]] = row}) = 1

\* C18 witness: three rows with a = x, X, x and partition_by = [a] give the
\* groups a=x: [0, 2] and a=X: [1]
C18_Witness ==
    /\ sy_pc = "write"
    /\ sy_args.partition_by = <<ColA>>
    /\ Len(sy_batch) = 3
    /\ DOMAIN sy_groups = {<<"a", "=", "x">>, <<"a", "=", "X">>}
    /\ sy_groups[<<"a", "=", "x">>] = <<0, 2>>
    /\ sy_groups[<<"a", "=", "X">>] = <<1>>

\* the value of a row that a partition key asks for: the cell of the column,
\* or the component of the timestamp
PartValue(key, row) ==
    IF key \in reserved
    THEN LET ts == sy_batch[row + 1][build_column_index_map(Schema)[sy_args.timestamp_col]]
         IN  CASE key = Year -> ts.year
               [] key = Month -> ts.month
               [] key = Day -> ts.day
               [] OTHER -> ts.hour
    ELSE sy_batch[row + 1][build_column_index_map(Schema)[key]]

\* the key of the group that holds a row
GroupOf(row) ==
    CHOOSE k \in DOMAIN sy_groups : \E p \in 1..Len(sy_groups[k]) : sy_groups[k][p] = row

\* C19: two rows are in the same group if and only if they have the same
\* value for every partition column (null and empty, upper and lower case,
\* and values with "/" or "=" kept apart)
C19_SameGroupIffSameValues ==
    Grouped =>
        \A i, j \in 0..(Len(sy_batch) - 1) :
            (GroupOf(i) = GroupOf(j)) <=>
                \A n \in 1..Len(sy_args.partition_by) :
                    PartValue(sy_args.partition_by[n], i) = PartValue(sy_args.partition_by[n], j)

\* the file the layout names for a partition key
ExpectedFile(key) == <<OutputDir, Table>> \o Components(key) \o <<PartFile>>

\* C20: a finished export with partition columns has written one file per
\* partition key, at output_dir/table/key/part-00000.parquet, distinct keys
\* to distinct files, each holding the rows of its key, and nothing else; one
\* without partition columns has written output_dir/table.parquet alone and
\* made no table directory
C20_OneFilePerKey ==
    sy_pc = "done" =>
        IF sy_args.partition_by = <<>>
        THEN /\ DOMAIN sy_files = {<<OutputDir, TableFile>>}
             /\ <<OutputDir, Table>> \notin sy_dirs
        ELSE /\ DOMAIN sy_files = {ExpectedFile(k) : k \in DOMAIN sy_groups}
             /\ Cardinality(DOMAIN sy_files) = Cardinality(DOMAIN sy_groups)
             /\ \A k \in DOMAIN sy_groups :
                    sy_files[ExpectedFile(k)] = take(sy_batch, sy_groups[k])

\* the calls of write_partition before the last one all came back with Ok
EarlierWrites == {sy_writes[i] : i \in 1..(Len(sy_writes) - 1)}

\* the part of C21 about the control flow: the run ends with the first write
\* that fails, and no partition is handed to write_partition twice
C21_AbortsAtFirstFailure ==
    [][/\ sy_pc # "err_write"
       /\ \A i, j \in 1..Len(sy_writes') : sy_writes'[i] = sy_writes'[j] => i = j
      ]_vars

\* C21: when the write of one partition fails the run ends at once, with no
\* further write and no second try, and the files of the partitions written
\* before it are on disk with their rows
C21_EarlierFilesKeepContent ==
    [][/\ sy_pc # "err_write"
       /\ \A i, j \in 1..Len(sy_writes') : sy_writes'[i] = sy_writes'[j] => i = j
       /\ (sy_pc' = "err_write" /\ sy_args.partition_by # <<>>) =>
             \A i \in 1..(Len(sy_writes') - 1) :
                 LET k == sy_writes'[i]
                 IN  /\ ExpectedFile(k) \in DOMAIN sy_files'
                     /\ sy_files'[ExpectedFile(k)] = take(sy_batch, sy_groups[k])
      ]_vars

\* the segment of a row for a partition key as the layout describes it: the
\* year in decimal, month, day and hour as two digits, a column's string
Segment(key, row) ==
    LET v == PartValue(key, row)
    IN  key \o <<"=">> \o
        (IF key = Year
         THEN <<Digit(v \div 1000), Digit((v \div 100) % 10), Digit((v \div 10) % 10), Digit(v % 10)>>
         ELSE IF key \in reserved THEN <<Digit(v \div 10), Digit(v % 10)>>
         ELSE v.s)

\* C23: the key of a row is its segments key=value in the order of the
\* partition columns, joined by "/"; the value of a reserved key is the
\* component of the row's timestamp, the year in decimal, month, day and
\* hour zero-padded to two digits
C23_KeyFromTimestamp ==
    Grouped =>
        \A row \in 0..(Len(sy_batch) - 1) :
            GroupOf(row) =
                Join([n \in 1..Len(sy_args.partition_by) |->
                         Segment(sy_args.partition_by[n], row)], "/")

\* C23 witness: a row with the timestamp 2024-03-05T13:00:00 and the
\* partition columns [year, month] is in the group year=2024/month=03
C23_Witness ==
    /\ Grouped
    /\ sy_args = [partition_by |-> <<Year, Month>>, timestamp_col |-> ColTs]
    /\ Len(sy_batch) >= 1
    /\ sy_batch[1][3] = Timestamp(2024, 3, 5, 13)
    /\ GroupOf(0) = <<"y", "e", "a", "r", "=", "2", "0", "2", "4", "/",
                      "m", "o", "n", "t", "h", "=", "0", "3">>

\* the files a finished run leaves, from the groups alone: every key's file
\* holds the rows of that key
FilesOfGroups ==
    \A k \in DOMAIN sy_groups :
        /\ ExpectedFile(k) \in DOMAIN sy_files
        /\ sy_files[ExpectedFile(k)] = take(sy_batch, sy_groups[k])

\* the part of C26 about the order of grouping and writing: nothing is
\* created before the groups are there, nor when grouping panics
C26_GroupingBeforeFiles ==
    (sy_args.partition_by # <<>> /\ sy_pc \in {"start", "validate", "schema", "rows", "group", "panic_key"}) =>
        sy_dirs = {} /\ sy_files = NoFile /\ sy_writes = <<>>

\* C26: grouping is through before a directory or file is created, a
\* grouping that fails leaves none, and the files of a finished run and
\* their rows are those of the groups, whatever the order of the writes
C26_OrderInsensitiveWrites ==
    /\ (sy_args.partition_by # <<>> /\ sy_pc \in {"start", "validate", "schema", "rows", "group", "panic_key"}) =>
          sy_dirs = {} /\ sy_files = NoFile /\ sy_writes = <<>>
    /\ (sy_args.partition_by # <<>> /\ sy_pc = "done") =>
          /\ DOMAIN sy_files = {ExpectedFile(k) : k \in DOMAIN sy_groups}
          /\ FilesOfGroups

(***************************************************************************)
(* More claims about the query cache, checked under SpecCache.             *)
(***************************************************************************)
\* C27: in every state, whatever the interleaving of the requests, the cache
\* has at most as many entries as its capacity and one entry per query text
C27_BoundedOneEntryPerText ==
    /\ Len(cache) <= cap
    /\ Cardinality({cache[i].key : i \in 1..Len(cache)}) = Len(cache)

\* C27 witness: the cache of capacity 2 is full, a third text was put into
\* it, and both requests have put the same text after both missed
C27_Witness ==
    /\ cap = 2
    /\ Len(cache) = 2
    /\ Len(recent) = 3
    /\ rsql["a"] = rsql["b"]
    /\ ops["a"] = <<"get", "exec", "put">>
    /\ ops["b"] = <<"get", "exec", "put">>

(***************************************************************************)
(* The claim about the metrics decorator, checked under SpecStore.         *)
(***************************************************************************)
\* the operation and arguments of each call of a history
OpsAndArgs(log) == [i \in 1..Len(log) |-> <<log[i].op, log[i].args>>]

\* the part of C22 about the methods the decorator implements: a call of one
\* of them adds one to its counter and to no other, hands the same operation
\* with the same arguments to the wrapped store once, and returns its result
C22_ImplementedMethodsForwardOnce ==
    [][(Len(ms_calls') = Len(ms_calls) + 1 /\ ms_calls'[Len(ms_calls')].op \in Overridden) =>
          LET c == ms_calls'[Len(ms_calls')]
          IN  /\ ms_counters' = [ms_counters EXCEPT ![c.op] = @ + 1]
              /\ ms_inner' = Append(ms_inner, c)]_vars

\* C22: every call of an operation on the decorator adds exactly one to the
\* counter of that operation and to no other counter, reaches the wrapped
\* store as one call of the same operation with the same arguments whose
\* result is returned, and the wrapped store sees the calls it sees without
\* the decorator
C22_CountsAndForwardsOnce ==
    [][Len(ms_calls') = Len(ms_calls) + 1 =>
          LET c == ms_calls'[Len(ms_calls')]
          IN  /\ c.op \in Overridden
              /\ ms_counters' = [ms_counters EXCEPT ![c.op] = @ + 1]
              /\ ms_inner' = Append(ms_inner, c)
              /\ OpsAndArgs(ms_inner') = OpsAndArgs(ms_direct')]_vars

(***************************************************************************)
(* The claims about the start-up of plano-serv, checked under SpecServ.    *)
(***************************************************************************)
\* the arguments TableSpec::parse refuses: those without '='
Unparsable == {i \in 1..Len(sv_specs) : ~Contains(sv_specs[i], "=")}

\* C24: plano-serv serves only with a cache of positive capacity and every
\* table spec parsed and registered; a cache size of zero ends the process
\* before any table is registered, and a table spec that does not parse ends
\* it with the loop at that spec
C24_ServesOnlyAfterGoodStartup ==
    /\ sv_pc = "serving" =>
          /\ sv_cap > 0
          /\ Unparsable = {}
          /\ Len(sv_printed) = Len(sv_specs)
          /\ \A i \in 1..Len(sv_specs) :
                sv_ctx[Before(sv_specs[i], find(sv_specs[i], "="))].kind = "listing"
    /\ sv_size = 0 => sv_pc \in {"start", "panic"} /\ sv_printed = <<>>
    /\ \A i \in Unparsable : sv_i <= i /\ sv_pc \notin {"bind", "serving"}

\* C24 witness: the first spec was registered, the second does not parse, and
\* main has returned the error
C24_Witness ==
    /\ sv_pc = "exit_err"
    /\ sv_cap > 0
    /\ Len(sv_printed) = 1
    /\ sv_i = 2
    /\ 2 \in Unparsable

\* C25: the location a local table is registered at is the normalized form of
\* its root, the one register_tables builds and prints
C25_RegisteredAtNormalizedRoot ==
    \A k \in 1..Len(sv_printed) :
        /\ sv_ctx[sv_printed[k][1]].kind = "listing"
        /\ sv_ctx[sv_printed[k][1]].root = sv_printed[k][2]

\* the specs register_tables has gone through: passed, or failed at
Processed == {i \in 1..Len(sv_specs) : sv_i > i \/ (sv_i = i /\ sv_pc = "exit_err")}

\* C28: the spec u=s3://b/u is parsed to the root s3://b/u, register_tables
\* never canonicalizes for it, and when the loop passes it the table is
\* registered at that URI
C28_S3SpecTakesS3Branch ==
    \A i \in Processed :
        sv_specs[i] = S3Spec =>
            /\ table_spec_parse(sv_specs[i]).root = S3Root
            /\ \A k \in 1..Len(sv_canon) : sv_canon[k][1] # i
            /\ sv_i > i => /\ sv_ctx[<<"u">>].kind = "listing"
                           /\ sv_ctx[<<"u">>].root = S3Root

(***************************************************************************)
(* The claim about the cache statistics, checked under SpecStats.          *)
(***************************************************************************)
\* the part of C29 about the usage: it is never negative, and a sub_usage of
\* more than the usage leaves it as it was
C29_UsageNeverUnderflows ==
    /\ cs_usage >= 0
    /\ (cs_last.op = "sub_usage" /\ cs_last.val > cs_last.before) => cs_usage = cs_last.before

\* C29: the usage never underflows and the gauge object_store_usage shows
\* the value usage() returns
C29_GaugeEqualsUsage ==
    /\ cs_usage >= 0
    /\ (cs_last.op = "sub_usage" /\ cs_last.val > cs_last.before) => cs_usage = cs_last.before
    /\ cs_usage_gauge = cs_usage

(***************************************************************************)
(* The claim about the source side of the export, checked under SpecRds.   *)
(***************************************************************************)
\* the part of C30 about the batch: it has the columns of the schema in their
\* order, each with one value per row
C30_BatchFollowsSchema ==
    rd_pc = "done" =>
        /\ Len(rd_batch) = Len(rd_schema)
        /\ \A i \in 1..Len(rd_schema) :
              /\ rd_batch[i].field = rd_schema[i]
              /\ Len(rd_batch[i].values) = rd_nrows

\* C30: sync_table never fails with an unsupported data type on a schema
\* infer_arrow_schema returned, and its batch has the columns of the schema
\* in their order, each with one value per row
C30_InferredTypesMaterialize ==
    /\ rd_pc = "err_sync" => rd_err[1] # "Unsupported data type"
    /\ rd_pc = "done" =>
          /\ Len(rd_batch) = Len(rd_schema)
          /\ \A i \in 1..Len(rd_schema) :
                /\ rd_batch[i].field = rd_schema[i]
                /\ Len(rd_batch[i].values) = rd_nrows

====
